---- MODULE Spec2Model ----
(***************************************************************************)
(* A model of the tabular ingestion and loading pipeline of                *)
(* llm-sheet-analysis: the relational loader (services/db_loader.rs), the  *)
(* header normalizers, the column statistics and the column type           *)
(* inference (services/excel/*.rs and services/file_processor.rs).         *)
(***************************************************************************)
EXTENDS Integers, Sequences, FiniteSets, TLC

(***************************************************************************)
(* Bounds of the model.                                                    *)
(***************************************************************************)
NumLoaders == 2
MaxLoads == 2
MaxRows == 2
MaxCols == 2
MaxHeaders == 3
MaxLen == 3
MaxSheetCols == 2
MaxSheets == 2

(***************************************************************************)
(* The state.                                                              *)
(***************************************************************************)
VARIABLES
    \* services/db_loader.rs: the loader and the callers of load_dataframe
    store,          \* the SQLite database behind conn: table name -> table
    conn,           \* holder of the Mutex<Connection> guard (NoProc: free)
    current_table,  \* Mutex<Option<String>>
    column_names,   \* Mutex<Vec<String>>
    ctLock,         \* holder of the current_table guard (NoProc: free)
    metaVerT,       \* load that wrote current_table last (0: DbLoader::new)
    metaVerC,       \* load that wrote column_names last (0: DbLoader::new)
    pc,             \* each load_dataframe caller's position
    ltable,         \* load_dataframe's table_name argument
    lframe,         \* load_dataframe's df argument
    lcols,          \* load_dataframe's local column_names
    lrow,           \* load_dataframe's row_idx
    lid,            \* the caller's place in the order of conn acquisitions
    loadLog,        \* the load_dataframe calls that returned, in that order
    \* services/db_loader.rs: the callers of has_data, get_schema_with_samples
    rpc,            \* each reader's position
    rop,            \* the operation the reader is in
    hdT,            \* has_data's local has_table
    hdVerT,         \* the load whose current_table has_data read
    hdVerC,         \* the load whose column_names has_data read
    rret,           \* the value the reader's last call returned
    \* the header normalizers
    nIn,            \* the raw header texts of the first row
    nOut,           \* headers, as excel/utils.rs clean_column_name returned them
    nSeen,          \* existing_names
    fpOut,          \* headers, as file_processor.rs clean_column_name returned them
    \* the column statistics and the type inference
    aValues,        \* the values of one column
    build,          \* the build profile: "debug" or "release"
    aParts,         \* analyze_column's parallel fold: slices and partial results
    aFolds,         \* the number of slices folded
    aInfo,          \* ColumnInfo of excel/analyzer.rs analyze_column
    fpInfo,         \* ColumnInfo of file_processor.rs analyze_column
    xInfo,          \* ColumnInfo of file_processor.rs analyze_excel_file
    tType,          \* the results of the detect_column_type functions
    \* the sheet analyzers
    sheet,          \* the rows of the first worksheet, range.rows()
    sa,             \* the analysis in progress and the SheetAnalysis returned
    \* the multi-sheet processors
    book,           \* the workbook: its sheets in order
    pf,             \* process_file's position, total_tabs and what it returned
    pstore          \* the tables the processor's loads left in the store

loaderVars == <<store, conn, current_table, column_names, ctLock, metaVerT,
                metaVerC, pc, ltable, lframe, lcols, lrow, lid, loadLog>>
readerVars == <<rpc, rop, hdT, hdVerT, hdVerC, rret>>
normVars == <<nIn, nOut, nSeen, fpOut>>
statVars == <<aValues, build, aParts, aFolds, aInfo, fpInfo, xInfo, tType>>
sheetVars == <<sheet, sa>>
procVars == <<book, pf, pstore>>
pureVars == <<normVars, statVars, sheetVars, procVars>>
vars == <<loaderVars, readerVars, normVars, statVars, sheetVars, procVars>>

(***************************************************************************)
(* Part 1.  The relational loader, services/db_loader.rs.                  *)
(***************************************************************************)
NoProc == 0
Loaders == 1..NumLoaders
Readers == {NumLoaders + 1}
None == "None"
TableNames == {"t1", "t2"}

\* The columns a frame is built from: polars column name and DataType.
ColPool ==
    <<[name |-> "a", dtype |-> "Int64"],
      [name |-> "b", dtype |-> "String"],
      [name |-> "c", dtype |-> "Float64"],
      [name |-> "d", dtype |-> "Datetime"],
      [name |-> "e", dtype |-> "Boolean"]>>

\* A DataFrame: its schema and its height.  A frame has MaxCols columns and
\* no row, one row or MaxRows rows or, the degenerate case, no column and no
\* row.
Frames ==
    {[cols |-> SubSeq(ColPool, 1, w), height |-> h] :
        w \in {MaxCols}, h \in {0, 1, MaxRows}}
    \cup {[cols |-> <<>>, height |-> 0]}

NoFrame == [cols |-> <<>>, height |-> 0]

\* df.get_column_names().iter().map(|&s| s.to_string()).collect()
FrameColumnNames(f) == [i \in 1..Len(f.cols) |-> f.cols[i].name]

\* A variant that gives every numeric DataType the type REAL.
SqlTypeNumericAsReal(dtype) ==
    CASE dtype \in {"Int32", "Int64", "Float32", "Float64"} -> "REAL"
      [] OTHER -> "TEXT"

\* The SQL type generate_create_table_sql gives a polars DataType.
SqlType(dtype) ==
    CASE dtype \in {"Int32", "Int64"} -> "INTEGER"
      [] dtype \in {"Float32", "Float64"} -> "REAL"
      [] OTHER -> "TEXT"

\* The column list of the CREATE TABLE statement, in schema order.
generate_create_table_sql(f) ==
    [i \in 1..Len(f.cols) |->
        [name |-> f.cols[i].name, type |-> SqlType(f.cols[i].dtype)]]

\* A table that is not in sqlite_master.
Absent == [exists |-> FALSE, by |-> 0, cols |-> <<>>, rows |-> <<>>]

\* A variant without the DROP statement.
DropTableSkipped(db, t) == db

\* DROP TABLE IF EXISTS t
DropTable(db, t) == [db EXCEPT ![t] = Absent]

\* CREATE TABLE IF NOT EXISTS t (cols): a no-op on an existing table.
CreateTable(db, t, cols, id) ==
    IF db[t].exists THEN db
    ELSE [db EXCEPT ![t] = [exists |-> TRUE, by |-> id, cols |-> cols,
                            rows |-> <<>>]]

\* INSERT INTO t (...) VALUES (...): one row, committed as it is executed.
InsertRow(db, t, row) == [db EXCEPT ![t].rows = Append(@, row)]

\* Row row_idx of the frame of load id, as bound to the statement.
FrameRow(id, i) == [load |-> id, idx |-> i]

\* The steps of load_dataframe that run a statement on the connection.
StoreSteps == {"drop", "create", "insert"}

\* The step whose statement is at hand at position pc[p].
StepAt(p) ==
    IF pc[p] = "insert" /\ lrow[p] = lframe[p].height THEN "verify" ELSE pc[p]

\* struct DbLoader holds conn, current_table and column_names and nothing
\* else: the table names for which the loader keeps a frame are none.
CachedTables == {}

\* The metadata as the spec's loader leaves it when a statement fails:
\* published before the store is touched.
MetaPublishedOnError(p) == [table |-> ltable[p], cols |-> lcols[p]]

\* A variant that clears the metadata when a statement fails.
MetaRetractedOnError(p) == [table |-> None, cols |-> <<>>]

\* The metadata as load_dataframe leaves it when a statement fails: the early
\* return comes before the metadata block, so both fields are untouched.
MetaOnError(p) == [table |-> current_table, cols |-> column_names]

LoadInit ==
    /\ store = [t \in TableNames |-> Absent]
    /\ conn = NoProc
    /\ current_table = None
    /\ column_names = <<>>
    /\ ctLock = NoProc
    /\ metaVerT = 0
    /\ metaVerC = 0
    /\ pc = [p \in Loaders |-> "idle"]
    /\ ltable = [p \in Loaders |-> None]
    /\ lframe = [p \in Loaders |-> NoFrame]
    /\ lcols = [p \in Loaders |-> <<>>]
    /\ lrow = [p \in Loaders |-> 0]
    /\ lid = [p \in Loaders |-> 0]
    /\ loadLog = <<>>

ReaderInit ==
    /\ rpc = [r \in Readers |-> "idle"]
    /\ rop = [r \in Readers |-> None]
    /\ hdT = [r \in Readers |-> FALSE]
    /\ hdVerT = [r \in Readers |-> 0]
    /\ hdVerC = [r \in Readers |-> 0]
    /\ rret = [r \in Readers |-> [kind |-> None]]

\* The calls of load_dataframe made so far.
LoadsStarted == Len(loadLog) + Cardinality({p \in Loaders : pc[p] # "idle"})

\* load_dataframe is called, takes the column names from the frame and
\* gets the connection guard: self.conn.lock().  A caller that finds the
\* mutex taken waits in the lock call with nothing done yet.
LoadCall(p) ==
    /\ pc[p] = "idle"
    /\ LoadsStarted < MaxLoads
    /\ conn = NoProc
    /\ \E t \in TableNames, f \in Frames :
          /\ ltable' = [ltable EXCEPT ![p] = t]
          /\ lframe' = [lframe EXCEPT ![p] = f]
          /\ lcols' = [lcols EXCEPT ![p] = FrameColumnNames(f)]
    /\ conn' = p
    /\ lid' = [lid EXCEPT ![p] = Len(loadLog) + 1]
    /\ pc' = [pc EXCEPT ![p] = "drop"]
    /\ UNCHANGED <<store, current_table, column_names, ctLock, metaVerT,
                   metaVerC, lrow, loadLog>>
    /\ UNCHANGED <<readerVars, pureVars>>

\* conn.execute("DROP TABLE IF EXISTS ...") succeeds.
LoadDrop(p) ==
    /\ pc[p] = "drop"
    /\ store' = DropTable(store, ltable[p])
    /\ pc' = [pc EXCEPT ![p] = "create"]
    /\ UNCHANGED <<conn, current_table, column_names, ctLock, metaVerT,
                   metaVerC, ltable, lframe, lcols, lrow, lid, loadLog>>
    /\ UNCHANGED <<readerVars, pureVars>>

\* conn.execute("CREATE TABLE IF NOT EXISTS ...") succeeds; SQLite rejects a
\* table without columns.  The row loop is entered at row_idx 0; preparing
\* the INSERT statement is the first part of the insert step.
LoadCreate(p) ==
    /\ pc[p] = "create"
    /\ Len(lframe[p].cols) > 0
    /\ store' = CreateTable(store, ltable[p],
                            generate_create_table_sql(lframe[p]), lid[p])
    /\ lrow' = [lrow EXCEPT ![p] = 0]
    /\ pc' = [pc EXCEPT ![p] = "insert"]
    /\ UNCHANGED <<conn, current_table, column_names, ctLock, metaVerT,
                   metaVerC, ltable, lframe, lcols, lid, loadLog>>
    /\ UNCHANGED <<readerVars, pureVars>>

\* One turn of the row loop: stmt.execute succeeds for row row_idx.
LoadInsertRow(p) ==
    /\ pc[p] = "insert"
    /\ lrow[p] < lframe[p].height
    /\ store' = InsertRow(store, ltable[p], FrameRow(lid[p], lrow[p] + 1))
    /\ lrow' = [lrow EXCEPT ![p] = lrow[p] + 1]
    /\ UNCHANGED <<conn, current_table, column_names, ctLock, metaVerT,
                   metaVerC, pc, ltable, lframe, lcols, lid, loadLog>>
    /\ UNCHANGED <<readerVars, pureVars>>

\* The row loop is over and SELECT COUNT(*) succeeds.
LoadVerify(p) ==
    /\ pc[p] = "insert"
    /\ lrow[p] = lframe[p].height
    /\ pc' = [pc EXCEPT ![p] = "publish_table"]
    /\ UNCHANGED <<store, conn, current_table, column_names, ctLock,
                   metaVerT, metaVerC, ltable, lframe, lcols, lrow, lid,
                   loadLog>>
    /\ UNCHANGED <<readerVars, pureVars>>

\* The statement at hand fails: the error is returned at once, the
\* connection guard is dropped, and nothing that was executed is undone.
LoadStoreFail(p) ==
    /\ pc[p] \in StoreSteps
    /\ current_table' = MetaOnError(p).table
    /\ column_names' = MetaOnError(p).cols
    /\ metaVerT' = IF current_table' = current_table THEN metaVerT ELSE lid[p]
    /\ metaVerC' = IF column_names' = column_names THEN metaVerC ELSE lid[p]
    /\ conn' = NoProc
    /\ loadLog' = Append(loadLog,
                         [table |-> ltable[p], frame |-> lframe[p],
                          outcome |-> "err", step |-> StepAt(p)])
    /\ pc' = [pc EXCEPT ![p] = "idle"]
    /\ ltable' = [ltable EXCEPT ![p] = None]
    /\ lframe' = [lframe EXCEPT ![p] = NoFrame]
    /\ lcols' = [lcols EXCEPT ![p] = <<>>]
    /\ lrow' = [lrow EXCEPT ![p] = 0]
    /\ lid' = [lid EXCEPT ![p] = 0]
    /\ UNCHANGED <<store, ctLock>>
    /\ UNCHANGED <<readerVars, pureVars>>

\* self.current_table.lock(); *current_table = Some(table_name)
LoadPublishTable(p) ==
    /\ pc[p] = "publish_table"
    /\ ctLock = NoProc
    /\ ctLock' = p
    /\ current_table' = ltable[p]
    /\ metaVerT' = lid[p]
    /\ pc' = [pc EXCEPT ![p] = "publish_cols"]
    /\ UNCHANGED <<store, conn, column_names, metaVerC, ltable, lframe,
                   lcols, lrow, lid, loadLog>>
    /\ UNCHANGED <<readerVars, pureVars>>

\* self.column_names.lock(); *stored_column_names = column_names; the guards
\* are dropped and Ok(()) is returned.
LoadPublishCols(p) ==
    /\ pc[p] = "publish_cols"
    /\ column_names' = lcols[p]
    /\ metaVerC' = lid[p]
    /\ ctLock' = NoProc
    /\ conn' = NoProc
    /\ loadLog' = Append(loadLog,
                         [table |-> ltable[p], frame |-> lframe[p],
                          outcome |-> "ok", step |-> "return"])
    /\ pc' = [pc EXCEPT ![p] = "idle"]
    /\ ltable' = [ltable EXCEPT ![p] = None]
    /\ lframe' = [lframe EXCEPT ![p] = NoFrame]
    /\ lcols' = [lcols EXCEPT ![p] = <<>>]
    /\ lrow' = [lrow EXCEPT ![p] = 0]
    /\ lid' = [lid EXCEPT ![p] = 0]
    /\ UNCHANGED <<store, current_table, metaVerT>>
    /\ UNCHANGED <<readerVars, pureVars>>

load_dataframe(p) ==
    \/ LoadCall(p)
    \/ LoadDrop(p)
    \/ LoadCreate(p)
    \/ LoadInsertRow(p)
    \/ LoadVerify(p)
    \/ LoadStoreFail(p)
    \/ LoadPublishTable(p)
    \/ LoadPublishCols(p)

(***************************************************************************)
(* The readers: has_data and get_schema_with_samples.                      *)
(***************************************************************************)
ReaderOps == {"has_data", "get_schema_with_samples"}

\* The rows SELECT * FROM t LIMIT 3 returns.
SampleLimit == 3

\* A variant without the LIMIT.
SampleRowsUnlimited(tbl) == tbl.rows

SampleRows(tbl) ==
    SubSeq(tbl.rows, 1,
           IF Len(tbl.rows) < SampleLimit THEN Len(tbl.rows) ELSE SampleLimit)

\* What get_schema_with_samples renders of the database.
SchemaWithSamples(db) ==
    IF \A t \in TableNames : ~db[t].exists
    THEN [kind |-> "NoTables"]
    ELSE [kind |-> "Schema",
          tables |-> [t \in {u \in TableNames : db[u].exists} |->
                        [cols |-> db[t].cols, sample |-> SampleRows(db[t])]]]

\* has_data, first half: has_table is read under the current_table guard.
\* get_schema_with_samples starts with the same call.
HasDataReadTable(r) ==
    /\ rpc[r] = "idle"
    /\ ctLock = NoProc
    /\ \E op \in ReaderOps :
          rop' = [rop EXCEPT ![r] = op]
    /\ hdT' = [hdT EXCEPT ![r] = (current_table # None)]
    /\ hdVerT' = [hdVerT EXCEPT ![r] = metaVerT]
    /\ hdVerC' = [hdVerC EXCEPT ![r] = 0]
    /\ rret' = [rret EXCEPT ![r] = [kind |-> None]]
    /\ rpc' = [rpc EXCEPT ![r] = "hd_cols"]
    /\ UNCHANGED <<loaderVars, pureVars>>

\* has_data, second half: has_columns is read under the column_names guard
\* and has_table && has_columns is returned.  get_schema_with_samples
\* returns its sentinel when the answer is false.
HasDataReadCols(r) ==
    /\ rpc[r] = "hd_cols"
    /\ hdVerC' = [hdVerC EXCEPT ![r] = metaVerC]
    /\ LET res == hdT[r] /\ (column_names # <<>>) IN
          IF rop[r] = "has_data"
          THEN /\ rret' = [rret EXCEPT ![r] = [kind |-> "Bool", val |-> res]]
               /\ rpc' = [rpc EXCEPT ![r] = "idle"]
          ELSE IF ~res
          THEN /\ rret' = [rret EXCEPT ![r] = [kind |-> "NoData"]]
               /\ rpc' = [rpc EXCEPT ![r] = "idle"]
          ELSE /\ rret' = rret
               /\ rpc' = [rpc EXCEPT ![r] = "lock"]
    /\ UNCHANGED <<rop, hdT, hdVerT>>
    /\ UNCHANGED <<loaderVars, pureVars>>

\* self.conn.lock() of get_schema_with_samples.
ReaderLockConn(r) ==
    /\ rpc[r] = "lock"
    /\ conn = NoProc
    /\ conn' = r
    /\ rpc' = [rpc EXCEPT ![r] = "reading"]
    /\ UNCHANGED <<store, current_table, column_names, ctLock, metaVerT,
                   metaVerC, pc, ltable, lframe, lcols, lrow, lid, loadLog>>
    /\ UNCHANGED <<rop, hdT, hdVerT, hdVerC, rret>>
    /\ UNCHANGED pureVars

\* The queries of get_schema_with_samples run, the text is returned and the
\* guard dropped.
ReaderRead(r) ==
    /\ rpc[r] = "reading"
    /\ rret' = [rret EXCEPT ![r] =
                  SchemaWithSamples(store)]
    /\ conn' = NoProc
    /\ rpc' = [rpc EXCEPT ![r] = "idle"]
    /\ UNCHANGED <<store, current_table, column_names, ctLock, metaVerT,
                   metaVerC, pc, ltable, lframe, lcols, lrow, lid, loadLog>>
    /\ UNCHANGED <<rop, hdT, hdVerT, hdVerC>>
    /\ UNCHANGED pureVars

Reader(r) ==
    \/ HasDataReadTable(r)
    \/ HasDataReadCols(r)
    \/ ReaderLockConn(r)
    \/ ReaderRead(r)

(***************************************************************************)
(* Part 2.  The header normalizers: clean_column_name of                   *)
(* services/excel/utils.rs (with the set of names in use) and of           *)
(* services/file_processor.rs (without).  A string is a sequence of        *)
(* characters; a character is a token.                                     *)
(***************************************************************************)
DigitChars == <<"0", "1", "2", "3", "4", "5", "6", "7", "8", "9">>

\* char::is_alphabetic.  "I_DOT" is U+0130, LATIN CAPITAL LETTER I WITH DOT
\* ABOVE; "DOT_ABOVE" is U+0307, COMBINING DOT ABOVE, a mark.
IsAlphabetic(c) == c \in {"a", "b", "c", "i", "l", "o", "A", "I_DOT"}

\* char::is_numeric
IsNumeric(c) == \E d \in 1..Len(DigitChars) : DigitChars[d] = c

\* char::is_alphanumeric
IsAlphanumeric(c) == IsAlphabetic(c) \/ IsNumeric(c)

\* The lower-case mapping of one character; U+0130 maps to two characters.
LowerChar(c) ==
    CASE c = "A" -> <<"a">>
      [] c = "I_DOT" -> <<"i", "DOT_ABOVE">>
      [] OTHER -> <<c>>

\* str::to_lowercase
RECURSIVE to_lowercase(_)
to_lowercase(str) ==
    IF str = <<>> THEN <<>>
    ELSE LowerChar(Head(str)) \o to_lowercase(Tail(str))

\* .chars().map(|c| if c.is_alphanumeric() || c == '_' { c } else { '_' })
ReplaceInvalid(str) ==
    [i \in 1..Len(str) |->
        IF IsAlphanumeric(str[i]) \/ str[i] = "_" THEN str[i] ELSE "_"]

\* counter.to_string()
RECURSIVE Decimal(_)
Decimal(n) ==
    IF n < 10 THEN <<DigitChars[n + 1]>>
    ELSE Decimal(n \div 10) \o <<DigitChars[(n % 10) + 1]>>

\* The name before the collision loop: base_name, or col_ and base_name when
\* base_name is empty or starts with a character that is not alphabetic.
ColPrefixed(name) ==
    LET base_name == to_lowercase(ReplaceInvalid(name)) IN
    IF base_name = <<>> \/ ~IsAlphabetic(Head(base_name))
    THEN <<"c", "o", "l", "_">> \o base_name
    ELSE base_name

\* while !existing_names.insert(cleaned.clone()) { cleaned = original_counter }
RECURSIVE SuffixLoop(_, _, _, _)
SuffixLoop(cleaned, original_name, counter, existing_names) ==
    IF cleaned \notin existing_names THEN cleaned
    ELSE SuffixLoop(original_name \o <<"_">> \o Decimal(counter),
                    original_name, counter + 1, existing_names)

\* A variant whose counter starts at 2.
clean_column_name_from_two(name, existing_names) ==
    SuffixLoop(ColPrefixed(name), ColPrefixed(name), 2, existing_names)

\* excel/utils.rs clean_column_name: the name it returns; the same name is
\* inserted into existing_names.
clean_column_name(name, existing_names) ==
    SuffixLoop(ColPrefixed(name), ColPrefixed(name), 1, existing_names)

\* file_processor.rs clean_column_name: no set of names, no suffix.
fp_clean_column_name(name) == ColPrefixed(name)

\* The header texts the model draws a first row from.
RawHeaders ==
    { <<>>, <<"a">>, <<"A">>, <<"a", "_", "1">>, <<"1">>,
      <<"c", "o", "l", "_", "1">>, <<"a", " ", "b">>, <<"I_DOT">> }

RECURSIVE SeqsUpTo(_, _)
SeqsUpTo(S, n) ==
    IF n = 0 THEN {<<>>}
    ELSE LET shorter == SeqsUpTo(S, n - 1) IN
         shorter \cup {Append(q, x) : q \in {r \in shorter : Len(r) = n - 1},
                                      x \in S}

NormIdle ==
    /\ nIn = <<>>
    /\ nOut = <<>>
    /\ nSeen = {}
    /\ fpOut = <<>>

NormInit ==
    /\ nIn \in SeqsUpTo(RawHeaders, MaxHeaders)
    /\ nOut = <<>>
    /\ nSeen = {}
    /\ fpOut = <<>>

\* One turn of row.iter().map(|cell| clean_column_name(&cell.to_string(),
\* &mut existing_names)) in analyze_from_bytes and process_file.
NormalizeHeader ==
    /\ Len(nOut) < Len(nIn)
    /\ LET cleaned == clean_column_name(nIn[Len(nOut) + 1], nSeen) IN
          /\ nOut' = Append(nOut, cleaned)
          /\ nSeen' = nSeen \cup {cleaned}
    /\ UNCHANGED <<nIn, fpOut>>
    /\ UNCHANGED <<loaderVars, readerVars, statVars, sheetVars, procVars>>

\* One turn of row.iter().map(|cell| clean_column_name(&cell.to_string()))
\* in file_processor.rs.
FpNormalizeHeader ==
    /\ Len(fpOut) < Len(nIn)
    /\ fpOut' = Append(fpOut, fp_clean_column_name(nIn[Len(fpOut) + 1]))
    /\ UNCHANGED <<nIn, nOut, nSeen>>
    /\ UNCHANGED <<loaderVars, readerVars, statVars, sheetVars, procVars>>

(***************************************************************************)
(* The loader after loads that ran one after the other, for the readers    *)
(* alone: frames taller than the sample of get_schema_with_samples.        *)
(***************************************************************************)
TallFrames ==
    {[cols |-> SubSeq(ColPool, 1, MaxCols), height |-> h] :
        h \in {0, 1, SampleLimit, SampleLimit + 1}}
    \cup {[cols |-> ColPool, height |-> 1]}
    \cup {NoFrame}

\* The row loop of load_dataframe run to its end: rows from + 1 .. height.
RECURSIVE InsertRows(_, _, _, _, _)
InsertRows(db, t, id, from, height) ==
    IF from >= height THEN db
    ELSE InsertRows(InsertRow(db, t, FrameRow(id, from + 1)), t, id,
                    from + 1, height)

NewLoader ==
    [store |-> [t \in TableNames |-> Absent], current_table |-> None,
     column_names |-> <<>>, metaVerT |-> 0, metaVerC |-> 0, loadLog |-> <<>>]

\* load_dataframe(f, t) run alone from the loader state st: DROP, then the
\* CREATE that fails for a frame without columns, the INSERTs, the metadata.
LoadAlone(st, t, f) ==
    LET id == Len(st.loadLog) + 1
        dropped == DropTable(st.store, t)
    IN  IF Len(f.cols) = 0
        THEN [st EXCEPT !.store = dropped,
                        !.loadLog = Append(@, [table |-> t, frame |-> f,
                                               outcome |-> "err",
                                               step |-> "create"])]
        ELSE [store |-> InsertRows(CreateTable(dropped, t,
                                       generate_create_table_sql(f), id),
                                   t, id, 0, f.height),
              current_table |-> t,
              column_names |-> FrameColumnNames(f),
              metaVerT |-> id,
              metaVerC |-> id,
              loadLog |-> Append(st.loadLog,
                                 [table |-> t, frame |-> f,
                                  outcome |-> "ok", step |-> "return"])]

RECURSIVE RunAlone(_, _)
RunAlone(st, loads) ==
    IF loads = <<>> THEN st
    ELSE RunAlone(LoadAlone(st, Head(loads).table, Head(loads).frame),
                  Tail(loads))

SchemaInit ==
    \E loads \in SeqsUpTo([table : TableNames, frame : TallFrames], MaxLoads) :
        LET st == RunAlone(NewLoader, loads) IN
        /\ store = st.store
        /\ current_table = st.current_table
        /\ column_names = st.column_names
        /\ metaVerT = st.metaVerT
        /\ metaVerC = st.metaVerC
        /\ loadLog = st.loadLog
        /\ conn = NoProc
        /\ ctLock = NoProc
        /\ pc = [p \in Loaders |-> "idle"]
        /\ ltable = [p \in Loaders |-> None]
        /\ lframe = [p \in Loaders |-> NoFrame]
        /\ lcols = [p \in Loaders |-> <<>>]
        /\ lrow = [p \in Loaders |-> 0]
        /\ lid = [p \in Loaders |-> 0]

(***************************************************************************)
(* Part 3.  The column statistics: analyze_column of                       *)
(* services/excel/analyzer.rs (a parallel fold and reduce), analyze_column *)
(* of services/file_processor.rs and the ColumnInfo that                   *)
(* analyze_excel_file builds in place.  A cell is a calamine Data value.   *)
(***************************************************************************)
SAMPLE_SIZE == 3
FpSampleSize == 5
TYPE_DETECTION_ROWS == 100

EmptyCell == [kind |-> "Empty"]
IntCell(n) == [kind |-> "Int", n |-> n]
\* A Float with an integral value n.
FloatCell(n) == [kind |-> "Float", n |-> n]
StringCell(s) == [kind |-> "String", s |-> s]
BoolCell(b) == [kind |-> "Bool", b |-> b]
\* A DateTime, by its serial day number.
DateTimeCell(n) == [kind |-> "DateTime", n |-> n]

\* Data's Display, value.to_string(): an Int and an integral Float print the
\* same digits, a String prints itself, Empty prints nothing.
to_string(value) ==
    CASE value.kind = "Empty" -> <<>>
      [] value.kind = "Int" -> Decimal(value.n)
      [] value.kind = "Float" -> Decimal(value.n)
      [] value.kind = "String" -> value.s
      [] value.kind = "Bool" ->
            IF value.b THEN <<"t", "r", "u", "e">>
            ELSE <<"f", "a", "l", "s", "e">>
      [] value.kind = "DateTime" -> Decimal(value.n)

\* The characters of the model in the order of their code points.
CharOrder ==
    <<" ", "-", "0", "1", "2", "3", "4", "5", "6", "7", "8", "9", ":",
      "a", "e", "f", "l", "r", "s", "t", "u", "x", "y">>

CharRank(c) == CHOOSE i \in 1..Len(CharOrder) : CharOrder[i] = c

\* str's Ord: a < b, byte by byte; a proper prefix is smaller.
RECURSIVE StrLess(_, _)
StrLess(a, b) ==
    IF b = <<>> THEN FALSE
    ELSE IF a = <<>> THEN TRUE
    ELSE IF Head(a) = Head(b) THEN StrLess(Tail(a), Tail(b))
    ELSE CharRank(Head(a)) < CharRank(Head(b))

\* Option<String>
NoneStr == [some |-> FALSE]
Some(v) == [some |-> TRUE, v |-> v]

\* excel/utils.rs update_min_max on min_max = <<min, max>>
update_min_max(min_max, value) ==
    << IF ~min_max[1].some \/ StrLess(value, min_max[1].v)
       THEN Some(value) ELSE min_max[1],
       IF ~min_max[2].some \/ StrLess(min_max[2].v, value)
       THEN Some(value) ELSE min_max[2] >>

\* A merge that keeps the left operand's bounds whenever it has any.
merge_min_max_left(a, b) ==
    << IF a[1].some THEN a[1] ELSE b[1],
       IF a[2].some THEN a[2] ELSE b[2] >>

\* excel/utils.rs merge_min_max
merge_min_max(a, b) ==
    << CASE ~a[1].some /\ ~b[1].some -> NoneStr
         [] a[1].some /\ ~b[1].some -> a[1]
         [] ~a[1].some /\ b[1].some -> b[1]
         [] OTHER -> IF StrLess(a[1].v, b[1].v) THEN a[1] ELSE b[1],
       CASE ~a[2].some /\ ~b[2].some -> NoneStr
         [] a[2].some /\ ~b[2].some -> a[2]
         [] ~a[2].some /\ b[2].some -> b[2]
         [] OTHER -> IF StrLess(b[2].v, a[2].v) THEN a[2] ELSE b[2] >>

\* The identity of the fold and of the reduce: (0, HashSet::new(), (None, None))
FoldIdentity == [nulls |-> 0, seen |-> {}, min_max |-> <<NoneStr, NoneStr>>]

\* The fold's closure on one value.
FoldStep(acc, value) ==
    IF value.kind = "Empty" THEN [acc EXCEPT !.nulls = @ + 1]
    ELSE [acc EXCEPT !.seen = @ \cup {to_string(value)},
                     !.min_max = update_min_max(@, to_string(value))]

\* The fold of values[lo..hi], in order, from acc.
RECURSIVE FoldRun(_, _, _, _)
FoldRun(acc, values, lo, hi) ==
    IF lo > hi THEN acc
    ELSE FoldRun(FoldStep(acc, values[lo]), values, lo + 1, hi)

\* The same fold, taken ten values at a time: the result of each run of ten
\* is worked out (its nulls is a count) before the next run starts from it,
\* which keeps the evaluation of a long column shallow.
RECURSIVE FoldSlice(_, _, _, _)
FoldSlice(acc, values, lo, hi) ==
    IF hi - lo < 10 THEN FoldRun(acc, values, lo, hi)
    ELSE LET run == FoldRun(acc, values, lo, lo + 9)
         IN  IF run.nulls \in Nat
             THEN FoldSlice(run, values, lo + 10, hi)
             ELSE run

\* The reduce's closure on two partial results, a to the left of b.
ReduceOp(a, b) ==
    [nulls |-> a.nulls + b.nulls,
     seen |-> a.seen \cup b.seen,
     min_max |-> merge_min_max(a.min_max, b.min_max)]

\* A string against a shape: "d" stands for one digit, any other character
\* for itself.
MatchesShape(s, shape) ==
    /\ Len(s) = Len(shape)
    /\ \A i \in 1..Len(shape) :
          IF shape[i] = "d" THEN IsNumeric(s[i]) ELSE s[i] = shape[i]

DateShape == <<"d", "d", "d", "d", "-", "d", "d", "-", "d", "d">>
TimeShape == <<" ", "d", "d", ":", "d", "d", ":", "d", "d">>

\* excel/utils.rs is_date_string: NaiveDateTime::parse_from_str wants a date
\* and a time of day, so the five formats without a time never parse; of the
\* other two the model's strings can only match "%Y-%m-%d %H:%M:%S".
is_date_string(s) == MatchesShape(s, DateShape \o TimeShape)

\* file_processor.rs is_date_string: the anchored patterns; the model's
\* strings can only match ^\d{4}-\d{2}-\d{2}$.
fp_is_date_string(s) == MatchesShape(s, DateShape)

IsNumericCell(v) == v.kind \in {"Float", "Int"}
IsBoolCell(v) == v.kind = "Bool"
IsEmptyCell(v) == v.kind = "Empty"

\* count as f64 >= total as f64 * 0.8.  The product is rounded to the
\* integer 4 * total / 5 whenever that is an integer, so on counts the test
\* is 5 * count >= 4 * total.
AtLeastThreshold(count, total) == 5 * count >= 4 * total

\* excel/analyzer.rs detect_column_type.  The cells pass .filter(not Empty)
\* before the fold, so the fold's Empty arm counts nothing.
analyzer_detect_column_type(values) ==
    LET taken == SubSeq(values, 1,
                        IF Len(values) < TYPE_DETECTION_ROWS
                        THEN Len(values) ELSE TYPE_DETECTION_ROWS)
        kept == SelectSeq(taken, LAMBDA v : ~IsEmptyCell(v))
        numeric_count ==
            Cardinality({i \in DOMAIN kept : IsNumericCell(kept[i])})
        date_count ==
            Cardinality({i \in DOMAIN kept :
                \/ kept[i].kind = "DateTime"
                \/ kept[i].kind = "String" /\ is_date_string(kept[i].s)})
        bool_count == Cardinality({i \in DOMAIN kept : IsBoolCell(kept[i])})
        empty_count ==
            Cardinality({i \in DOMAIN kept : IsEmptyCell(kept[i])})
        total == Len(values) - empty_count
    IN  IF total = 0 THEN "empty"
        ELSE IF AtLeastThreshold(numeric_count, total) THEN "numeric"
        ELSE IF AtLeastThreshold(date_count, total) THEN "date"
        ELSE IF AtLeastThreshold(bool_count, total) THEN "boolean"
        ELSE "string"

\* file_processor.rs detect_column_type
fp_detect_column_type(values) ==
    LET numeric_count ==
            Cardinality({i \in DOMAIN values : IsNumericCell(values[i])})
        date_count ==
            Cardinality({i \in DOMAIN values :
                \/ values[i].kind = "DateTime"
                \/ values[i].kind = "String" /\ fp_is_date_string(values[i].s)})
        bool_count == Cardinality({i \in DOMAIN values : IsBoolCell(values[i])})
        empty_count ==
            Cardinality({i \in DOMAIN values : IsEmptyCell(values[i])})
        total == Len(values) - empty_count
    IN  IF total = 0 THEN "empty"
        ELSE IF AtLeastThreshold(numeric_count, total) THEN "numeric"
        ELSE IF AtLeastThreshold(date_count, total) THEN "date"
        ELSE IF AtLeastThreshold(bool_count, total) THEN "boolean"
        ELSE "string"

\* excel/utils.rs detect_column_type: ratios over the cells that are not
\* Empty, date before numeric, more than one half.
utils_detect_column_type(values) ==
    LET kept == SelectSeq(values, LAMBDA v : ~IsEmptyCell(v))
        total_count == Len(kept)
        numeric_count ==
            Cardinality({i \in DOMAIN kept : IsNumericCell(kept[i])})
        date_count ==
            Cardinality({i \in DOMAIN kept :
                \/ kept[i].kind = "DateTime"
                \/ kept[i].kind = "String" /\ is_date_string(kept[i].s)})
    IN  IF total_count = 0 THEN "string"
        ELSE IF 2 * date_count > total_count THEN "date"
        ELSE IF 2 * numeric_count > total_count THEN "numeric"
        ELSE "string"

\* The first n values as the sample strings; an Empty cell gives "".
SampleValues(values, n) ==
    [i \in 1..(IF Len(values) < n THEN Len(values) ELSE n) |->
        to_string(values[i])]

NoInfo == [kind |-> "none"]
\* The call ended in a panic: no ColumnInfo.
Panicked == [kind |-> "panic"]

\* a - b on usize in a build without overflow checks: a - b, or 2^64 - n
\* for n = b - a when b is the larger.
WrappingSub(a, b) ==
    IF a >= b THEN [wrapped |-> FALSE, n |-> a - b]
    ELSE [wrapped |-> TRUE, n |-> b - a]

\* x < d for a count x of the model and a difference d of WrappingSub;
\* 2^64 - n is above every count of the model.
LessThanDiff(x, d) == IF d.wrapped THEN TRUE ELSE x < d.n

\* The ColumnInfo of excel/analyzer.rs analyze_column from the reduced result.
AnalyzerColumnInfo(values, result) ==
    [kind |-> "info",
     data_type |-> analyzer_detect_column_type(values),
     sample_values |-> SampleValues(values, SAMPLE_SIZE),
     null_count |-> result.nulls,
     unique_count |-> Cardinality(result.seen),
     min_value |-> result.min_max[1],
     max_value |-> result.min_max[2],
     has_duplicates |->
        LessThanDiff(Cardinality(result.seen),
                     WrappingSub(Len(values), result.nulls))]

\* file_processor.rs analyze_column.  The loop over the first five values
\* adds one to null_count for each Empty cell, and the loop over all values
\* adds one again.  values.len() - null_count panics in a build with overflow
\* checks when null_count is the larger, and wraps in a build without.  The
\* second loop does to one value what the analyzer's fold closure does.
fp_analyze_column(values, profile) ==
    LET first == SubSeq(values, 1,
                        IF Len(values) < FpSampleSize
                        THEN Len(values) ELSE FpSampleSize)
        counted_first ==
            Cardinality({i \in DOMAIN first : IsEmptyCell(first[i])})
        looped == FoldSlice([FoldIdentity EXCEPT !.nulls = counted_first],
                            values, 1, Len(values))
        null_count == looped.nulls
    IN  IF null_count > Len(values) /\ profile = "debug" THEN Panicked
        ELSE
        [kind |-> "info",
         data_type |-> fp_detect_column_type(values),
         sample_values |-> SampleValues(values, FpSampleSize),
         null_count |-> null_count,
         unique_count |-> Cardinality(looped.seen),
         min_value |-> looped.min_max[1],
         max_value |-> looped.min_max[2],
         has_duplicates |->
            LessThanDiff(Cardinality(looped.seen),
                         WrappingSub(Len(values), null_count))]

\* The ColumnInfo that file_processor.rs analyze_excel_file builds in place:
\* unique_count over the strings of all values, Empty cells with them.
ExcelFileColumnInfo(values) ==
    [kind |-> "info",
     data_type |-> fp_detect_column_type(values),
     sample_values |-> SampleValues(values, FpSampleSize),
     null_count |-> Cardinality({i \in DOMAIN values : IsEmptyCell(values[i])}),
     unique_count |->
        Cardinality({to_string(values[i]) : i \in 1..Len(values)}),
     min_value |-> NoneStr,
     max_value |-> NoneStr,
     has_duplicates |-> FALSE]

\* The cells the model draws a column from: 1 as Int, as Float and as
\* String print the same, "10" sorts between "1" and "9".
StatCells ==
    { EmptyCell, IntCell(1), FloatCell(1), IntCell(10), IntCell(9),
      StringCell(<<"x">>) }

Profiles == {"debug", "release"}

Slice(lo, hi) == [st |-> "slice", lo |-> lo, hi |-> hi, acc |-> FoldIdentity]
Partial(lo, hi, acc) == [st |-> "acc", lo |-> lo, hi |-> hi, acc |-> acc]

StatIdle ==
    /\ aValues = <<>>
    /\ build = "debug"
    /\ aParts = <<>>
    /\ aFolds = 0
    /\ aInfo = NoInfo
    /\ fpInfo = NoInfo
    /\ xInfo = NoInfo
    /\ tType = NoInfo

StatInit ==
    /\ aValues \in SeqsUpTo(StatCells, MaxLen)
    /\ build \in Profiles
    /\ aParts = <<>>
    /\ aFolds = 0
    /\ aInfo = NoInfo
    /\ fpInfo = NoInfo
    /\ xInfo = NoInfo
    /\ tType = NoInfo

NotAnalyzed ==
    /\ aParts = <<>>
    /\ aInfo = NoInfo
    /\ fpInfo = NoInfo
    /\ xInfo = NoInfo

otherVars == <<loaderVars, readerVars, normVars, sheetVars, procVars>>

\* excel/analyzer.rs analyze_column is called: values.par_iter() is one slice.
AnalyzeColumnCall ==
    /\ NotAnalyzed
    /\ aParts' = <<Slice(1, Len(aValues))>>
    /\ UNCHANGED <<aValues, build, aFolds, aInfo, fpInfo, xInfo, tType>>
    /\ UNCHANGED otherVars

ReplaceAt(parts, i, n, new) ==
    SubSeq(parts, 1, i - 1) \o new \o SubSeq(parts, i + n, Len(parts))

\* The parallel iterator splits a slice in two.
SplitSlice ==
    /\ aInfo = NoInfo
    /\ \E i \in DOMAIN aParts :
          /\ aParts[i].st = "slice"
          /\ \E k \in aParts[i].lo..(aParts[i].hi - 1) :
                aParts' = ReplaceAt(aParts, i, 1,
                                    <<Slice(aParts[i].lo, k),
                                      Slice(k + 1, aParts[i].hi)>>)
    /\ UNCHANGED <<aValues, build, aFolds, aInfo, fpInfo, xInfo, tType>>
    /\ UNCHANGED otherVars

\* One slice is folded from the identity.
FoldOneSlice ==
    /\ aInfo = NoInfo
    /\ \E i \in DOMAIN aParts :
          /\ aParts[i].st = "slice"
          /\ aParts' = ReplaceAt(aParts, i, 1,
                <<Partial(aParts[i].lo, aParts[i].hi,
                          FoldSlice(FoldIdentity, aValues,
                                    aParts[i].lo, aParts[i].hi))>>)
    /\ aFolds' = aFolds + 1
    /\ UNCHANGED <<aValues, build, aInfo, fpInfo, xInfo, tType>>
    /\ UNCHANGED otherVars

\* Two partial results that lie side by side are reduced to one.
ReduceAdjacent ==
    /\ aInfo = NoInfo
    /\ \E i \in DOMAIN aParts :
          /\ i + 1 \in DOMAIN aParts
          /\ aParts[i].st = "acc"
          /\ aParts[i + 1].st = "acc"
          /\ aParts' = ReplaceAt(aParts, i, 2,
                <<Partial(aParts[i].lo, aParts[i + 1].hi,
                          ReduceOp(aParts[i].acc, aParts[i + 1].acc))>>)
    /\ UNCHANGED <<aValues, build, aFolds, aInfo, fpInfo, xInfo, tType>>
    /\ UNCHANGED otherVars

\* A partial result is reduced with the reduce's identity, on either side.
ReduceIdentity ==
    /\ aInfo = NoInfo
    /\ \E i \in DOMAIN aParts, left \in BOOLEAN :
          /\ aParts[i].st = "acc"
          /\ aParts' = [aParts EXCEPT ![i].acc =
                            IF left THEN ReduceOp(FoldIdentity, @)
                            ELSE ReduceOp(@, FoldIdentity)]
    /\ UNCHANGED <<aValues, build, aFolds, aInfo, fpInfo, xInfo, tType>>
    /\ UNCHANGED otherVars

\* The reduce has one result left: analyze_column returns its ColumnInfo.
AnalyzeColumnReturn ==
    /\ aInfo = NoInfo
    /\ Len(aParts) = 1
    /\ aParts[1].st = "acc"
    /\ aInfo' = AnalyzerColumnInfo(aValues, aParts[1].acc)
    /\ UNCHANGED <<aValues, build, aParts, aFolds, fpInfo, xInfo, tType>>
    /\ UNCHANGED otherVars

\* file_processor.rs analyze_column on the column
FpAnalyzeColumn ==
    /\ NotAnalyzed
    /\ fpInfo' = fp_analyze_column(aValues, build)
    /\ UNCHANGED <<aValues, build, aParts, aFolds, aInfo, xInfo, tType>>
    /\ UNCHANGED otherVars

\* file_processor.rs analyze_excel_file on the column
AnalyzeExcelFileColumn ==
    /\ NotAnalyzed
    /\ xInfo' = ExcelFileColumnInfo(aValues)
    /\ UNCHANGED <<aValues, build, aParts, aFolds, aInfo, fpInfo, tType>>
    /\ UNCHANGED otherVars

(***************************************************************************)
(* Part 4.  The column type inference on columns of up to                  *)
(* TYPE_DETECTION_ROWS values.  A column is a run of each kind of cell.    *)
(***************************************************************************)
Repeat(v, n) == [i \in 1..n |-> v]

\* The kinds of cell of a column, and the lengths a run of each may have.
RunCells ==
    <<IntCell(1), StringCell(<<"1">>), StringCell(<<"x">>), EmptyCell>>

RunLengths ==
    <<{0, 1, 4, 5, 7, 79, 80}, {0, 4, 79, 80}, {0, 1, 20, 21}, {0, 1, 3}>>

RunColumns ==
    { Repeat(RunCells[1], n[1]) \o Repeat(RunCells[2], n[2])
        \o Repeat(RunCells[3], n[3]) \o Repeat(RunCells[4], n[4]) :
      n \in { m \in RunLengths[1] \X RunLengths[2] \X RunLengths[3]
                      \X RunLengths[4] :
                m[1] + m[2] + m[3] + m[4] <= TYPE_DETECTION_ROWS } }

TypeInit ==
    /\ aValues \in RunColumns
    /\ build = "debug"
    /\ aParts = <<>>
    /\ aFolds = 0
    /\ aInfo = NoInfo
    /\ fpInfo = NoInfo
    /\ xInfo = NoInfo
    /\ tType = NoInfo

Detected(fn, data_type) == [kind |-> "type", fn |-> fn, data_type |-> data_type]

\* excel/analyzer.rs detect_column_type on the column
AnalyzerDetectColumnType ==
    /\ tType = NoInfo
    /\ tType' = Detected("analyzer", analyzer_detect_column_type(aValues))
    /\ UNCHANGED <<aValues, build, aParts, aFolds, aInfo, fpInfo, xInfo>>
    /\ UNCHANGED otherVars

\* file_processor.rs detect_column_type on the column
FpDetectColumnType ==
    /\ tType = NoInfo
    /\ tType' = Detected("file_processor", fp_detect_column_type(aValues))
    /\ UNCHANGED <<aValues, build, aParts, aFolds, aInfo, fpInfo, xInfo>>
    /\ UNCHANGED otherVars

\* excel/utils.rs detect_column_type on the column
UtilsDetectColumnType ==
    /\ tType = NoInfo
    /\ tType' = Detected("utils", utils_detect_column_type(aValues))
    /\ UNCHANGED <<aValues, build, aParts, aFolds, aInfo, fpInfo, xInfo>>
    /\ UNCHANGED otherVars

(***************************************************************************)
(* Part 5.  The sheet analyzers: analyze_from_bytes of                     *)
(* services/excel/analyzer.rs, which maps the columns in parallel, and     *)
(* analyze_excel_file_from_url of services/file_processor.rs.  A sheet is  *)
(* the rows of the worksheet's range, the header row first.                *)
(***************************************************************************)
RowsAfterHeader == 999
FpRowWindow == 1000
FpSampleRows == 5

\* The cell of data row r of n in a column of a given content.
ProfileCell(profile, r, n) ==
    CASE profile = "int" -> IntCell(1)
      [] profile = "text" -> StringCell(<<"x">>)
      [] profile = "bool" -> BoolCell(TRUE)
      [] profile = "date" -> DateTimeCell(1)
      [] profile = "last_empty" -> IF r = n THEN EmptyCell ELSE IntCell(r)
      [] profile = "last_repeats" -> IF r = n THEN IntCell(1) ELSE IntCell(r)

ColumnProfiles ==
    {"int", "text", "bool", "date", "last_empty", "last_repeats"}

\* The numbers of data rows of the sheets of the model.
DataRowCounts == {0, 6, 101}

SheetHeaders == {<<"a">>, <<"b">>}

\* The sheet with the given header texts, column contents and n data rows.
SheetOf(hdrs, profiles, n) ==
    <<[c \in DOMAIN hdrs |-> StringCell(hdrs[c])]>> \o
    [r \in 1..n |-> [c \in DOMAIN hdrs |-> ProfileCell(profiles[c], r, n)]]

Sheets ==
    {<<>>} \cup
    UNION { { SheetOf(hdrs, profiles, n) :
                hdrs \in {h \in [1..w -> SheetHeaders] : h[1] = <<"a">>},
                profiles \in [1..w -> ColumnProfiles],
                n \in DataRowCounts } : w \in 1..MaxSheetCols }

Take(seq, n) == SubSeq(seq, 1, IF Len(seq) < n THEN Len(seq) ELSE n)

\* rows.iter().skip(1).take(TYPE_DETECTION_ROWS) and the cell idx of each;
\* every row of a range has a cell idx.
ColumnValues(rows, idx) ==
    [r \in 1..Len(Take(Tail(rows), TYPE_DETECTION_ROWS)) |-> rows[r + 1][idx]]

\* The header row through excel/utils.rs clean_column_name, left to right,
\* with one set of names in use.
RECURSIVE CleanHeaders(_, _, _)
CleanHeaders(row, out, existing_names) ==
    IF Len(out) = Len(row) THEN out
    ELSE LET cleaned == clean_column_name(to_string(row[Len(out) + 1]),
                                          existing_names)
         IN  CleanHeaders(row, Append(out, cleaned),
                          existing_names \cup {cleaned})

\* The header row through file_processor.rs clean_column_name.
FpCleanHeaders(row) ==
    [c \in DOMAIN row |-> fp_clean_column_name(to_string(row[c]))]

\* The first n rows as strings.
SampleData(rows, n) ==
    [r \in DOMAIN Take(rows, n) |->
        [c \in DOMAIN rows[r] |-> to_string(rows[r][c])]]

\* A variant that pushes the boolean columns to text_columns.
CategoryListWithBoolean(data_type) ==
    CASE data_type = "date" -> "date_columns"
      [] data_type = "numeric" -> "numeric_columns"
      [] data_type \in {"string", "boolean"} -> "text_columns"
      [] OTHER -> "none"

\* The list a column of a data type is pushed to, "none" for no list.
CategoryList(data_type) ==
    CASE data_type = "date" -> "date_columns"
      [] data_type = "numeric" -> "numeric_columns"
      [] data_type = "string" -> "text_columns"
      [] OTHER -> "none"

Pushed(list, which, data_type, name) ==
    IF CategoryList(data_type) = which THEN Append(list, name) ELSE list

Named(name, info) == [name |-> name, info |-> info]

SheetIdle ==
    /\ sheet = <<>>
    /\ sa = NoInfo

SheetInit ==
    /\ sheet \in Sheets
    /\ sa = NoInfo

\* analyze_from_bytes up to the parallel map: the rows taken, the headers.
AnalyzeFromBytesCall ==
    /\ sa = NoInfo
    /\ LET rows == IF sheet = <<>> THEN <<>>
                   ELSE <<Head(sheet)>> \o Take(Tail(sheet), RowsAfterHeader)
           headers == IF rows = <<>> THEN <<>>
                      ELSE CleanHeaders(rows[1], <<>>, {})
       IN  sa' = [kind |-> "running", fn |-> "analyzer", rows |-> rows,
                  headers |-> headers,
                  infos |-> [c \in DOMAIN headers |-> NoInfo],
                  date_columns |-> <<>>, numeric_columns |-> <<>>,
                  text_columns |-> <<>>]
    /\ UNCHANGED <<sheet, loaderVars, readerVars, normVars, statVars, procVars>>

\* The map's closure on one column, in any order of the columns: the type
\* of the sample, the push to a list under its Mutex, analyze_column.
AnalyzeFromBytesColumn ==
    /\ sa.kind = "running"
    /\ \E idx \in DOMAIN sa.headers :
          /\ sa.infos[idx] = NoInfo
          /\ LET name == sa.headers[idx]
                 values == ColumnValues(sa.rows, idx)
                 data_type == analyzer_detect_column_type(values)
                 info == AnalyzerColumnInfo(values,
                            FoldSlice(FoldIdentity, values, 1, Len(values)))
             IN  sa' = [sa EXCEPT
                    !.infos[idx] = Named(name, info),
                    !.date_columns = Pushed(@, "date_columns", data_type, name),
                    !.numeric_columns =
                        Pushed(@, "numeric_columns", data_type, name),
                    !.text_columns = Pushed(@, "text_columns", data_type, name)]
    /\ UNCHANGED <<sheet, loaderVars, readerVars, normVars, statVars, procVars>>

\* Every column is mapped: analyze_from_bytes returns the SheetAnalysis.
AnalyzeFromBytesReturn ==
    /\ sa.kind = "running"
    /\ \A idx \in DOMAIN sa.headers : sa.infos[idx] # NoInfo
    /\ sa' = [kind |-> "analysis", fn |-> "analyzer",
              rows |-> sa.rows,
              row_count |-> Len(sa.rows),
              column_count |-> IF sa.rows = <<>> THEN 0 ELSE Len(sa.rows[1]),
              sample_data |-> SampleData(sa.rows, SAMPLE_SIZE),
              column_info |-> sa.infos,
              date_columns |-> sa.date_columns,
              numeric_columns |-> sa.numeric_columns,
              text_columns |-> sa.text_columns]
    /\ UNCHANGED <<sheet, loaderVars, readerVars, normVars, statVars, procVars>>

\* The names, in column order, of the columns that values_of and the type
\* function send to one list.
FpListOf(which, headers, types) ==
    LET idxs == SelectSeq([c \in DOMAIN headers |-> c],
                          LAMBDA c : CategoryList(types[c]) = which)
    IN  [k \in DOMAIN idxs |-> headers[idxs[k]]]

\* file_processor.rs analyze_excel_file_from_url on the sheet: the columns
\* are mapped in order; a panic in analyze_column ends the call.
AnalyzeExcelFileFromUrl ==
    /\ sa = NoInfo
    /\ LET rows == Take(sheet, FpRowWindow)
           headers == IF rows = <<>> THEN <<>> ELSE FpCleanHeaders(rows[1])
           types == [c \in DOMAIN headers |->
                        fp_detect_column_type(ColumnValues(rows, c))]
           infos == [c \in DOMAIN headers |->
                        fp_analyze_column(ColumnValues(rows, c), build)]
       IN  IF \E c \in DOMAIN headers : infos[c] = Panicked
           THEN sa' = Panicked
           ELSE sa' =
              [kind |-> "analysis", fn |-> "file_processor",
               rows |-> rows,
               row_count |-> Len(rows),
               column_count |-> IF rows = <<>> THEN 0 ELSE Len(rows[1]),
               sample_data |-> SampleData(rows, FpSampleRows),
               column_info |->
                  [c \in DOMAIN headers |-> Named(headers[c], infos[c])],
               date_columns |-> FpListOf("date_columns", headers, types),
               numeric_columns |->
                  FpListOf("numeric_columns", headers, types),
               text_columns |-> FpListOf("text_columns", headers, types)]
    /\ UNCHANGED <<sheet, loaderVars, readerVars, normVars, statVars, procVars>>

\* No column is being analyzed on its own; the build profile is open.
StatIdleAnyBuild ==
    /\ aValues = <<>>
    /\ build \in Profiles
    /\ aParts = <<>>
    /\ aFolds = 0
    /\ aInfo = NoInfo
    /\ fpInfo = NoInfo
    /\ xInfo = NoInfo
    /\ tType = NoInfo

(***************************************************************************)
(* Part 6.  The multi-sheet processors: process_file of                    *)
(* services/excel/processor.rs and process_excel_file of                   *)
(* services/file_processor.rs, with their create_dataframe and             *)
(* clean_dataframe.  A frame is a sequence of typed columns; a value of a  *)
(* column is null or holds a number or a string.                           *)
(***************************************************************************)
Null == [null |-> TRUE]
Val(v) == [null |-> FALSE, v |-> v]

SecondsPerDay == 86400

\* The values of column col_idx in the rows after the header.
FrameValues(rows, col_idx) ==
    [r \in 1..(Len(rows) - 1) |-> rows[r + 1][col_idx]]

\* The Series that create_dataframe builds for one header: f64 with null
\* for every cell that is not Float or Int, i64 seconds with null for every
\* cell that is not DateTime, or the strings of all cells.
SeriesOf(header, values, data_type) ==
    CASE data_type = "numeric" ->
            [name |-> header, dtype |-> "f64",
             vals |-> [r \in DOMAIN values |->
                         IF IsNumericCell(values[r]) THEN Val(values[r].n)
                         ELSE Null]]
      [] data_type = "date" ->
            [name |-> header, dtype |-> "i64",
             vals |-> [r \in DOMAIN values |->
                         IF values[r].kind = "DateTime"
                         THEN Val(values[r].n * SecondsPerDay)
                         ELSE Null]]
      [] OTHER ->
            [name |-> header, dtype |-> "str",
             vals |-> [r \in DOMAIN values |-> Val(to_string(values[r]))]]

NoFrameBuilt == [kind |-> "err"]
Built(cols) == [kind |-> "frame", cols |-> cols]

Height(df) == IF df.cols = <<>> THEN 0 ELSE Len(df.cols[1].vals)
Width(df) == Len(df.cols)

\* create_dataframe with the type function of its file: an error for no rows
\* or no headers, and DataFrame::new's error for a column name used twice.
create_dataframe(rows, headers, fn) ==
    IF rows = <<>> \/ headers = <<>> THEN NoFrameBuilt
    ELSE IF \E c, d \in DOMAIN headers : c # d /\ headers[c] = headers[d]
    THEN NoFrameBuilt
    ELSE Built([c \in DOMAIN headers |->
                  LET values == FrameValues(rows, c)
                  IN  SeriesOf(headers[c], values,
                         IF fn = "excel_processor"
                         THEN utils_detect_column_type(values)
                         ELSE fp_detect_column_type(values))])

\* DataFrame::drop_nulls(None): the rows that hold no null in any column.
drop_nulls(df) ==
    LET keep == SelectSeq([r \in 1..Height(df) |-> r],
                          LAMBDA r : \A c \in DOMAIN df.cols :
                                        ~df.cols[c].vals[r].null)
    IN  Built([c \in DOMAIN df.cols |->
                 [df.cols[c] EXCEPT !.vals =
                     [k \in DOMAIN keep |-> df.cols[c].vals[keep[k]]]]])

\* The select of the columns that are not empty and not all null.
select_filled(df) ==
    Built(SelectSeq(df.cols,
            LAMBDA col : /\ col.vals # <<>>
                         /\ \E r \in DOMAIN col.vals : ~col.vals[r].null))

NoneFrame == [kind |-> "none"]

\* A variant of cleaning that hands back what is left, whatever its size.
clean_dataframe_unsized(df) == select_filled(drop_nulls(df))

\* clean_dataframe, the same in both files
clean_dataframe(df) ==
    IF Height(df) = 0 \/ Width(df) = 0 THEN NoneFrame
    ELSE LET cleaned == select_filled(drop_nulls(df))
         IN  IF Height(cleaned) = 0 \/ Width(cleaned) = 0 THEN NoneFrame
             ELSE cleaned

\* tbl_ before a cleaned name that is empty or starts with a character that
\* is not alphabetic; the same function in both files.
clean_table_name(name) ==
    LET cleaned == to_lowercase(ReplaceInvalid(name)) IN
    IF cleaned = <<>> \/ ~IsAlphabetic(Head(cleaned))
    THEN <<"t", "b", "l", "_">> \o cleaned
    ELSE cleaned

\* series.cast(&DataType::String) of one value
CastString(dtype, value) ==
    CASE dtype = "f64" -> Decimal(value.v) \o <<".", "0">>
      [] dtype = "i64" -> Decimal(value.v)
      [] OTHER -> value.v

\* processor.rs detect_date_columns: the columns whose first value, as a
\* string, is a date string of excel/utils.rs.
detect_date_columns(df) ==
    {c \in DOMAIN df.cols :
        /\ df.cols[c].vals # <<>>
        /\ ~df.cols[c].vals[1].null
        /\ is_date_string(CastString(df.cols[c].dtype, df.cols[c].vals[1]))}

\* file_processor.rs is_date_series: a string column with at least 80% date
\* strings among its first 100 values that are not null.
is_date_series(col) ==
    /\ col.dtype = "str"
    /\ LET present == SelectSeq(col.vals, LAMBDA x : ~x.null)
           sample == Take(present, TYPE_DETECTION_ROWS)
           date_count == Cardinality({i \in DOMAIN sample :
                                         fp_is_date_string(sample[i].v)})
       IN  /\ Len(sample) > 0
           /\ AtLeastThreshold(date_count, Len(sample))

fp_detect_date_columns(df) == {c \in DOMAIN df.cols : is_date_series(df.cols[c])}

\* normalize_date_columns: each date column replaced by its cast to
\* Datetime(Microseconds); a string that is no timestamp casts to null.
normalize_date_columns(df, date_columns) ==
    Built([c \in DOMAIN df.cols |->
             IF c \notin date_columns THEN df.cols[c]
             ELSE [name |-> df.cols[c].name, dtype |-> "datetime",
                   vals |-> [r \in DOMAIN df.cols[c].vals |->
                               LET x == df.cols[c].vals[r] IN
                               IF x.null THEN Null
                               ELSE IF df.cols[c].dtype # "str" THEN x
                               ELSE IF is_date_string(x.v)
                                       \/ fp_is_date_string(x.v)
                               THEN x
                               ELSE Null]]])

\* The texts 2024-01-01 and 2024-01-01 00:00:00
DateText == <<"2", "0", "2", "4", "-", "0", "1", "-", "0", "1">>
TimestampText ==
    DateText \o <<" ", "0", "0", ":", "0", "0", ":", "0", "0">>

\* The sheets of a workbook: a name, whether worksheet_range reads it, and
\* its rows.  An unreadable sheet has no rows to show.
SheetNames == { <<"a", " ">>, <<"a", "_">>, <<"1">> }

SheetRows ==
    { <<>>,
      << <<EmptyCell>> >>,
      << <<EmptyCell>>, <<EmptyCell>> >>,
      << <<StringCell(<<"a">>)>>, <<EmptyCell>>, <<IntCell(1)>> >>,
      << <<StringCell(<<"a">>), StringCell(<<"b">>)>>,
         <<IntCell(1), StringCell(<<"x">>)>>,
         <<EmptyCell, StringCell(<<"y">>)>> >>,
      << <<StringCell(<<"a">>), StringCell(<<"a">>)>>,
         <<IntCell(1), StringCell(<<"x">>)>> >>,
      << <<StringCell(<<"a">>), StringCell(<<"b">>)>>,
         <<StringCell(<<"x">>), EmptyCell>>,
         <<EmptyCell, EmptyCell>> >>,
      << <<StringCell(<<"a">>)>>, <<StringCell(TimestampText)>>,
         <<StringCell(<<"x">>)>>, <<StringCell(<<"y">>)>> >>,
      << <<StringCell(<<"a">>)>>, <<StringCell(<<"x">>)>>,
         <<StringCell(DateText)>>, <<StringCell(DateText)>>,
         <<StringCell(DateText)>>, <<StringCell(DateText)>> >> }

WorkSheets ==
    [name : SheetNames, readable : {TRUE}, rows : SheetRows]
        \cup [name : SheetNames, readable : {FALSE}, rows : {<<>>}]

\* Workbooks of up to MaxSheets sheets; a workbook has no two sheets of one
\* name.
Workbooks ==
    {b \in SeqsUpTo(WorkSheets, MaxSheets) :
        /\ b # <<>>
        /\ \A i, j \in DOMAIN b : i # j => b[i].name # b[j].name}

Processors == {"excel_processor", "file_processor"}

\* A variant that counts a sheet whose load failed.
TotalTabsCountingFailures(total_tabs, outcome) ==
    IF outcome \in {"loaded", "load_failed"} THEN total_tabs + 1
    ELSE total_tabs

\* total_tabs += 1 in the Ok arm of the load, and nowhere else.
TotalTabsAfter(total_tabs, outcome) ==
    IF outcome = "loaded" THEN total_tabs + 1 ELSE total_tabs

\* The frame of one sheet up to the load: headers, create_dataframe,
\* clean_dataframe, the date pass.
SheetHeadersOf(ws, fn) ==
    IF fn = "excel_processor" THEN CleanHeaders(ws.rows[1], <<>>, {})
    ELSE FpCleanHeaders(ws.rows[1])

BuiltFrame(ws, fn) == create_dataframe(ws.rows, SheetHeadersOf(ws, fn), fn)

DatePass(df, fn) ==
    normalize_date_columns(df,
        IF fn = "excel_processor" THEN detect_date_columns(df)
        ELSE fp_detect_date_columns(df))

\* What stops a sheet before the load, or "load" when it reaches it.
SheetStage(ws, fn) ==
    IF ~ws.readable THEN "read_failed"
    ELSE IF ws.rows = <<>> THEN "empty_sheet"
    ELSE IF BuiltFrame(ws, fn).kind = "err" THEN "build_failed"
    ELSE IF clean_dataframe(BuiltFrame(ws, fn)).kind = "none"
    THEN "empty_after_cleaning"
    ELSE "load"

\* format!("excel_{}_{}", clean_table_name(sheet_name), timestamp): the
\* cleaned sheet name and the second of the clock.
TableName(ws, now) == [sheet |-> clean_table_name(ws.name), ts |-> now]

MaxTicks == 1

ProcIdle ==
    /\ book = <<>>
    /\ pf = NoInfo
    /\ pstore = <<>>

ProcInit ==
    /\ book \in Workbooks
    /\ pf = NoInfo
    /\ pstore = <<>>

procFrame == <<loaderVars, readerVars, normVars, statVars, sheetVars>>

\* process_file / process_excel_file up to the loop over the sheet names
ProcessFileCall ==
    /\ pf = NoInfo
    /\ book # <<>>
    /\ \E fn \in Processors :
          pf' = [kind |-> "running", fn |-> fn, next |-> 1, total_tabs |-> 0,
                 now |-> 0, log |-> <<>>]
    /\ UNCHANGED <<book, pstore, procFrame>>

\* The store without the table of a name: DROP TABLE IF EXISTS
Without(st, name) == SelectSeq(st, LAMBDA e : e.table # name)

\* One turn of the loop that stops before the load: the sheet is skipped.
ProcessSheetSkip ==
    /\ pf.kind = "running"
    /\ pf.next <= Len(book)
    /\ LET ws == book[pf.next]
           stage == SheetStage(ws, pf.fn)
       IN  /\ stage # "load"
           /\ pf' = [pf EXCEPT !.next = @ + 1,
                               !.total_tabs = TotalTabsAfter(@, stage),
                               !.log = Append(@, [outcome |-> stage])]
    /\ UNCHANGED <<book, pstore, procFrame>>

\* One turn of the loop that reaches load_dataframe: the clock is read, the
\* load drops the table of that name and then succeeds or fails.
ProcessSheetLoad ==
    /\ pf.kind = "running"
    /\ pf.next <= Len(book)
    /\ LET ws == book[pf.next]
           df == DatePass(clean_dataframe(BuiltFrame(ws, pf.fn)), pf.fn)
       IN  /\ SheetStage(ws, pf.fn) = "load"
           /\ \E now \in pf.now..MaxTicks, ok \in BOOLEAN, dropped \in BOOLEAN :
                LET table == TableName(ws, now)
                    outcome == IF ok THEN "loaded" ELSE "load_failed"
                IN  /\ ok => dropped
                    /\ pstore' =
                          IF ok
                          THEN Append(Without(pstore, table),
                                      [table |-> table, df |-> df])
                          ELSE IF dropped THEN Without(pstore, table)
                          ELSE pstore
                    /\ pf' = [pf EXCEPT
                                !.next = @ + 1,
                                !.now = now,
                                !.total_tabs = TotalTabsAfter(@, outcome),
                                !.log = Append(@, [outcome |-> outcome,
                                                   table |-> table])]
    /\ UNCHANGED <<book, procFrame>>

\* After the loop: the error when total_tabs is 0, Ok(total_tabs) otherwise.
ProcessFileReturn ==
    /\ pf.kind = "running"
    /\ pf.next > Len(book)
    /\ pf' = [kind |-> "returned", fn |-> pf.fn, log |-> pf.log,
              result |-> IF pf.total_tabs = 0
                         THEN [ok |-> FALSE]
                         ELSE [ok |-> TRUE, value |-> pf.total_tabs]]
    /\ UNCHANGED <<book, pstore, procFrame>>
(***************************************************************************)
(* The specifications.                                                     *)
(***************************************************************************)
\* The loader under concurrent callers.
Init == LoadInit /\ ReaderInit /\ NormIdle /\ StatIdle /\ SheetIdle /\ ProcIdle

Next ==
    \/ \E p \in Loaders : load_dataframe(p)
    \/ \E r \in Readers : Reader(r)

Spec == Init /\ [][Next]_vars

\* The header normalizers on every first row of the bounds.
InitNorm == LoadInit /\ ReaderInit /\ NormInit /\ StatIdle /\ SheetIdle /\ ProcIdle

NextNorm ==
    \/ NormalizeHeader
    \/ FpNormalizeHeader

SpecNorm == InitNorm /\ [][NextNorm]_vars

\* The column statistics on every column of the bounds, by one of the three
\* functions.
InitStats == LoadInit /\ ReaderInit /\ NormIdle /\ StatInit /\ SheetIdle /\ ProcIdle

NextStats ==
    \/ AnalyzeColumnCall
    \/ SplitSlice
    \/ FoldOneSlice
    \/ ReduceAdjacent
    \/ ReduceIdentity
    \/ AnalyzeColumnReturn
    \/ FpAnalyzeColumn
    \/ AnalyzeExcelFileColumn

SpecStats == InitStats /\ [][NextStats]_vars

\* The type inference on the columns of runs.
InitType == LoadInit /\ ReaderInit /\ NormIdle /\ TypeInit /\ SheetIdle /\ ProcIdle

NextType ==
    \/ AnalyzerDetectColumnType
    \/ FpDetectColumnType
    \/ UtilsDetectColumnType

SpecType == InitType /\ [][NextType]_vars

\* The sheet analyzers on the sheets of the bounds.
InitSheet ==
    /\ LoadInit /\ ReaderInit /\ NormIdle /\ StatIdleAnyBuild /\ SheetInit
    /\ ProcIdle

NextSheet ==
    \/ AnalyzeFromBytesCall
    \/ AnalyzeFromBytesColumn
    \/ AnalyzeFromBytesReturn
    \/ AnalyzeExcelFileFromUrl

SpecSheet == InitSheet /\ [][NextSheet]_vars

\* The readers on a loader that loads have left and that no load is using.
InitSchema ==
    /\ SchemaInit /\ ReaderInit /\ NormIdle /\ StatIdle /\ SheetIdle
    /\ ProcIdle

NextSchema == \E r \in Readers : Reader(r)

SpecSchema == InitSchema /\ [][NextSchema]_vars

\* The multi-sheet processors on the workbooks of the bounds.
InitProc == LoadInit /\ ReaderInit /\ NormIdle /\ StatIdle /\ SheetIdle /\ ProcInit

NextProc ==
    \/ ProcessFileCall
    \/ ProcessSheetSkip
    \/ ProcessSheetLoad
    \/ ProcessFileReturn

SpecProc == InitProc /\ [][NextProc]_vars

(***************************************************************************)
(* Properties of the loader.                                               *)
(***************************************************************************)
\* The loads that have returned.
Returned == 1..Len(loadLog)

\* The table a load leaves when all its statements succeed.
FullTable(i) ==
    [exists |-> TRUE, by |-> i,
     cols |-> generate_create_table_sql(loadLog[i].frame),
     rows |-> [k \in 1..loadLog[i].frame.height |-> FrameRow(i, k)]]

\* The steps the claims call the drop, create and insert steps.
WriteSteps == {"drop", "create", "insert"}

\* The value has_data() has when it runs alone in this state.
HasDataNow == current_table # None /\ column_names # <<>>

\* C1: once a load has returned a failure of an insert, the store holds none
\* of the rows that load inserted.
C1_InsertFailureRollsBack ==
    \A i \in Returned :
        (loadLog[i].outcome = "err" /\ loadLog[i].step = "insert")
            => \A t \in TableNames :
                  \A k \in 1..Len(store[t].rows) : store[t].rows[k].load # i

\* C2: when every load of t after a successful load i of t has failed in its
\* drop, create or insert step, table t is still the full table of load i.
C2_EarlierTableIntact ==
    conn = NoProc =>
        \A i \in Returned :
            (/\ loadLog[i].outcome = "ok"
             /\ \E j \in Returned : j > i /\ loadLog[j].table = loadLog[i].table
             /\ \A j \in Returned :
                    (j > i /\ loadLog[j].table = loadLog[i].table)
                        => (loadLog[j].outcome = "err"
                            /\ loadLog[j].step \in WriteSteps))
                => store[loadLog[i].table] = FullTable(i)

\* The callers that are running statements on the connection.
OnConnection ==
    {p \in Loaders : pc[p] \in StoreSteps} \cup {r \in Readers : rpc[r] = "reading"}

\* At most one caller operates on the connection at a time.
ConnSerialized == Cardinality(OnConnection) <= 1

\* The rows a reader of table tbl is shown when the table is whole: the
\* first SampleLimit rows of the frame of the load that created it.
WholeSample(tbl) == SampleRows(FullTable(tbl.by))

\* C3: store operations are serialized, and get_schema_with_samples never
\* reads a table in a state between its load's DROP and its last INSERT:
\* the sample it is shown is the sample of the whole table.
C3_SerializedAndAtomicToReaders ==
    /\ ConnSerialized
    /\ \A r \in Readers :
          (rpc[r] = "reading" /\ rop[r] = "get_schema_with_samples") =>
              \A t \in TableNames :
                  store[t].exists => SampleRows(store[t]) = WholeSample(store[t])

C5_HasDataReadsOneSnapshot ==
    \A r \in Readers :
        rret[r].kind = "Bool" => hdVerT[r] = hdVerC[r]

\* The successful loads that no later load of the same table has followed
\* or is following.
LastLoads ==
    {i \in Returned :
        /\ loadLog[i].outcome = "ok"
        /\ \A j \in Returned : j > i => loadLog[j].table # loadLog[i].table
        /\ \A p \in Loaders : ltable[p] # loadLog[i].table}

\* C16: after a successful load of a frame into t, whatever t held before,
\* t holds the rows of the frame and no other, one per row of the frame and
\* in the frame's order, under the frame's columns in the frame's order.
C16_RoundTrip ==
    \A i \in LastLoads :
        LET tbl == store[loadLog[i].table]
            frame == loadLog[i].frame
        IN  /\ tbl.exists
            /\ Len(tbl.rows) = frame.height
            /\ \A k \in 1..Len(tbl.rows) : tbl.rows[k] = FrameRow(i, k)
            /\ [c \in 1..Len(tbl.cols) |-> tbl.cols[c].name]
                  = FrameColumnNames(frame)

C16_Witness ==
    /\ Len(loadLog) = 2
    /\ loadLog[1].table = loadLog[2].table
    /\ loadLog[1].outcome = "ok" /\ loadLog[1].frame.height = MaxRows
    /\ loadLog[2].outcome = "ok" /\ loadLog[2].frame.height = 1
    /\ store[loadLog[2].table].rows = <<FrameRow(2, 1)>>

\* Some load has returned Ok.
SomeLoadOk == \E i \in Returned : loadLog[i].outcome = "ok"

\* The tables of the store.
StoreTables == {t \in TableNames : store[t].exists}

\* get_schema_with_samples takes the connection only after a load has
\* succeeded, and returns the sentinel only to a call that read
\* current_table before any load had set it.
SchemaReadsStoreOnlyAfterLoad ==
    \A r \in Readers :
        rop[r] = "get_schema_with_samples"
            => /\ rpc[r] \in {"lock", "reading"} => SomeLoadOk
               /\ rret[r].kind \in {"Schema", "NoTables"} => SomeLoadOk
               /\ rret[r].kind = "NoData" => hdVerT[r] = 0

\* C17: with no load in progress, get_schema_with_samples returns the
\* sentinel when no load has succeeded and has then not taken the
\* connection; when a load has succeeded it returns, for every table of the
\* store and no other, the first rows of the table, at most 3 of them.
C17_SentinelOrEveryTableSampled ==
    \A r \in Readers :
        rop[r] = "get_schema_with_samples"
            => /\ rpc[r] \in {"lock", "reading"} => SomeLoadOk
               /\ (rpc[r] = "idle" /\ ~SomeLoadOk) => rret[r].kind = "NoData"
               /\ (rpc[r] = "idle" /\ SomeLoadOk)
                    => IF StoreTables = {} THEN rret[r].kind = "NoTables"
                       ELSE /\ rret[r].kind = "Schema"
                            /\ DOMAIN rret[r].tables = StoreTables
                            /\ \A t \in StoreTables :
                                  LET sample == rret[r].tables[t].sample IN
                                  /\ Len(sample) <= 3
                                  /\ Len(sample) <= Len(store[t].rows)
                                  /\ Len(sample) = 3
                                        \/ Len(sample) = Len(store[t].rows)
                                  /\ \A k \in 1..Len(sample) :
                                        sample[k] = store[t].rows[k]

C17_Witness ==
    \E r \in Readers :
        /\ rop[r] = "get_schema_with_samples"
        /\ rpc[r] = "idle"
        /\ rret[r].kind = "Schema"
        /\ \E t \in StoreTables :
              /\ Len(store[t].rows) = SampleLimit + 1
              /\ Len(rret[r].tables[t].sample) = 3

\* C18: every load that has returned Ok has its frame kept by the loader
\* under its table name.
C18_EveryLoadCached ==
    \A i \in Returned :
        loadLog[i].outcome = "ok" => loadLog[i].table \in CachedTables

(***************************************************************************)
(* Properties of the header normalizers.                                   *)
(***************************************************************************)
\* Only alphanumeric characters and underscores, the first one alphabetic.
IdentifierValid(name) ==
    /\ name # <<>>
    /\ IsAlphabetic(Head(name))
    /\ \A i \in 1..Len(name) : IsAlphanumeric(name[i]) \/ name[i] = "_"

PairwiseDistinct(names) ==
    \A i, j \in 1..Len(names) : i # j => names[i] # names[j]

\* A finished list of names: as long as the input, distinct, valid.
NormalizedWell(out) ==
    Len(out) = Len(nIn) =>
        /\ PairwiseDistinct(out)
        /\ \A i \in 1..Len(out) : IdentifierValid(out[i])

\* C6: for any list of raw headers the column-name normalizer, of
\* excel/utils.rs and of file_processor.rs, returns as many names, pairwise
\* distinct and identifier-valid.
C6_NormalizedDistinctAndValid ==
    /\ NormalizedWell(nOut)
    /\ NormalizedWell(fpOut)

\* The names excel/utils.rs returns are pairwise distinct.
UtilsNamesDistinct == PairwiseDistinct(nOut)

(***************************************************************************)
(* Properties of the column statistics.                                    *)
(***************************************************************************)
Infos == {aInfo, fpInfo, xInfo}

WholeColumn == FoldSlice(FoldIdentity, aValues, 1, Len(aValues))

\* C7: the column statistics are partition-invariant.  However the column is
\* split into contiguous slices, each folded and the partial results merged,
\* every partial result is the fold of the values it spans, and the
\* null_count, unique_count, min_value and max_value of the ColumnInfo are
\* those of folding the whole column at once.
C7_PartitionInvariant ==
    /\ \A i \in DOMAIN aParts :
          aParts[i].st = "acc" =>
             aParts[i].acc = FoldSlice(FoldIdentity, aValues,
                                       aParts[i].lo, aParts[i].hi)
    /\ aInfo.kind = "info" =>
          /\ aInfo.null_count = WholeColumn.nulls
          /\ aInfo.unique_count = Cardinality(WholeColumn.seen)
          /\ aInfo.min_value = WholeColumn.min_max[1]
          /\ aInfo.max_value = WholeColumn.min_max[2]

\* A ColumnInfo reduced from three slices of a column with an empty cell
\* and a minimum that is not in the leftmost slice.
C7_Witness ==
    /\ aInfo.kind = "info"
    /\ aFolds = 3
    /\ aInfo.null_count = 1
    /\ aInfo.unique_count = 2
    /\ aInfo.min_value # Some(to_string(aValues[1]))
    /\ aInfo.min_value # aInfo.max_value

\* C8: for every ColumnInfo the program computes, has_duplicates is
\* unique_count < total_values - null_count, total_values being the number
\* of values analyzed for the column.
C8_HasDuplicatesRule ==
    \A info \in Infos :
        info.kind = "info" =>
           ( info.has_duplicates <=>
                info.unique_count < Len(aValues) - info.null_count )

\* C9: for every ColumnInfo the program computes, null_count + unique_count
\* is at most the number of values, so that total_values - null_count never
\* underflows, columns that begin with empty cells included.
C9_CountsWithinTotal ==
    /\ fpInfo # Panicked
    /\ \A info \in Infos :
          info.kind = "info" =>
             info.null_count + info.unique_count <= Len(aValues)

\* The analyzer's ColumnInfo alone obeys both rules.
AnalyzerInfoConsistent ==
    aInfo.kind = "info" =>
       /\ aInfo.null_count + aInfo.unique_count <= Len(aValues)
       /\ aInfo.has_duplicates <=>
             aInfo.unique_count < Len(aValues) - aInfo.null_count

(***************************************************************************)
(* Properties of the type inference.                                       *)
(***************************************************************************)
\* A value that is a number in its string form.
NumericString(v) ==
    \/ v.kind \in {"Int", "Float"}
    \/ /\ v.kind = "String"
       /\ v.s # <<>>
       /\ \A i \in 1..Len(v.s) : IsNumeric(v.s[i])

NonEmptyCount == Cardinality({i \in DOMAIN aValues : ~IsEmptyCell(aValues[i])})
NumericStringCount == Cardinality({i \in DOMAIN aValues : NumericString(aValues[i])})
AnalyzerDetected == tType.kind = "type" /\ tType.fn = "analyzer"

\* C10: a column in which exactly 80% of the sampled non-empty values are
\* numeric strings is classified numeric, and a column in which 79% are is
\* not classified numeric.
C10_ThresholdAtEightyPercent ==
    AnalyzerDetected /\ NonEmptyCount > 0 =>
       /\ 100 * NumericStringCount = 80 * NonEmptyCount =>
             tType.data_type = "numeric"
       /\ 100 * NumericStringCount = 79 * NonEmptyCount =>
             tType.data_type # "numeric"

\* On columns of Int or Float cells and text, with no empty cell, the cut
\* is at 80% of the values: numeric at 80%, not numeric below.
AnalyzerCutOnNumericCells ==
    AnalyzerDetected /\ NonEmptyCount = Len(aValues) /\ Len(aValues) > 0 =>
       ( tType.data_type = "numeric" <=>
            5 * Cardinality({i \in DOMAIN aValues : IsNumericCell(aValues[i])}) >= 4 * Len(aValues) )

\* The classification rule on a column, with the date test of the function
\* that is asked: total is the number of sampled cells that are not empty.
RuleType(values, fn) ==
    LET total == Cardinality({i \in DOMAIN values : ~IsEmptyCell(values[i])})
        numeric == Cardinality({i \in DOMAIN values : IsNumericCell(values[i])})
        date ==
            Cardinality({i \in DOMAIN values :
                \/ values[i].kind = "DateTime"
                \/ /\ values[i].kind = "String"
                   /\ IF fn = "analyzer" THEN is_date_string(values[i].s)
                      ELSE fp_is_date_string(values[i].s)})
        bool == Cardinality({i \in DOMAIN values : IsBoolCell(values[i])})
    IN  IF total = 0 THEN "empty"
        ELSE IF 5 * numeric >= 4 * total THEN "numeric"
        ELSE IF 5 * date >= 4 * total THEN "date"
        ELSE IF 5 * bool >= 4 * total THEN "boolean"
        ELSE "string"

\* C11: the type inference leaves the empty cells out of the denominator.
\* With total the sampled count minus the empty cells it returns "empty"
\* when total is 0, otherwise the first of numeric, date and boolean whose
\* count is at least 80% of total, otherwise "string"; 7 numeric cells and
\* 3 empty cells are numeric.
C11_EmptyCellsOutOfDenominator ==
    tType.kind = "type" /\ tType.fn \in {"analyzer", "file_processor"} =>
       tType.data_type = RuleType(aValues, tType.fn)

\* file_processor.rs detect_column_type alone follows the rule.
FpDetectFollowsRule ==
    tType.kind = "type" /\ tType.fn = "file_processor" =>
       tType.data_type = RuleType(aValues, tType.fn)

(***************************************************************************)
(* Properties of the sheet analyzers.                                      *)
(***************************************************************************)
Analyzed == sa.kind = "analysis"

\* C12: for any input size, every ColumnInfo.sample_values has at most 3
\* entries and SheetAnalysis.sample_data has at most 5 rows.
C12_SampleSizeBound ==
    Analyzed =>
       /\ Len(sa.sample_data) <= 5
       /\ \A c \in DOMAIN sa.column_info :
             Len(sa.column_info[c].info.sample_values) <= 3

\* The analyzer's SheetAnalysis alone keeps both caps.
AnalyzerSampleSizeBound ==
    Analyzed /\ sa.fn = "analyzer" =>
       /\ Len(sa.sample_data) <= 5
       /\ \A c \in DOMAIN sa.column_info :
             Len(sa.column_info[c].info.sample_values) <= 3

Occurrences(list, name) == Cardinality({k \in DOMAIN list : list[k] = name})

ByAnalyzer == Analyzed /\ sa.fn = "analyzer"

\* C19: the three category lists follow the inferred type.  A column name is
\* in date_columns, numeric_columns or text_columns exactly when its
\* ColumnInfo.data_type is date, numeric or string, each name is in at most
\* one list (and there once), and the columns classified boolean or empty
\* are in none.
C19_CategoryListsFollowType ==
    ByAnalyzer =>
       \A c \in DOMAIN sa.column_info :
          LET name == sa.column_info[c].name
              data_type == sa.column_info[c].info.data_type
              in_date == Occurrences(sa.date_columns, name)
              in_numeric == Occurrences(sa.numeric_columns, name)
              in_text == Occurrences(sa.text_columns, name)
          IN  /\ in_date = (IF data_type = "date" THEN 1 ELSE 0)
              /\ in_numeric = (IF data_type = "numeric" THEN 1 ELSE 0)
              /\ in_text = (IF data_type = "string" THEN 1 ELSE 0)
              /\ in_date + in_numeric + in_text <= 1
              /\ data_type \in {"boolean", "empty"} =>
                    in_date + in_numeric + in_text = 0

\* A SheetAnalysis of two columns with one header text, one classified
\* boolean and in no list, the other classified date and in date_columns.
C19_Witness ==
    /\ ByAnalyzer
    /\ Len(sa.column_info) = 2
    /\ sa.rows[1][1] = sa.rows[1][2]
    /\ sa.column_info[1].info.data_type = "boolean"
    /\ sa.column_info[2].info.data_type = "date"
    /\ sa.date_columns = <<sa.column_info[2].name>>
    /\ sa.text_columns = <<>>

\* The values of column c in every data row taken.
WindowColumn(c) == [r \in 1..(Len(sa.rows) - 1) |-> sa.rows[r + 1][c]]

WindowStats(c) ==
    FoldSlice(FoldIdentity, WindowColumn(c), 1, Len(WindowColumn(c)))

\* C20: the sheet analyzer computes each column's statistics over all data
\* rows taken, and only the type over the 100-row sample: a null or a
\* duplicate that occurs only after data row 100 shows in null_count and
\* has_duplicates.
C20_StatisticsOverFullWindow ==
    ByAnalyzer =>
       \A c \in DOMAIN sa.column_info :
          LET info == sa.column_info[c].info
              whole == WindowStats(c)
          IN  /\ info.null_count = whole.nulls
              /\ info.unique_count = Cardinality(whole.seen)
              /\ info.min_value = whole.min_max[1]
              /\ info.max_value = whole.min_max[2]
              /\ info.has_duplicates <=>
                    Cardinality(whole.seen)
                       < Len(WindowColumn(c)) - whole.nulls

(***************************************************************************)
(* Properties of the multi-sheet processors.                               *)
(***************************************************************************)
\* The sheets the loop has been through, by their position in the workbook.
Processed == IF pf = NoInfo THEN {} ELSE DOMAIN pf.log

\* The tables that loads of this call have put in the store.
LoadedTables == {pstore[i].table : i \in DOMAIN pstore}

\* C13: a readable sheet of one row and one column whose only cell is empty
\* comes out of cleaning as no frame: the loop records it as empty after
\* cleaning, it is not loaded into the store and not counted.
C13_SingleEmptyCellSheetSkipped ==
    \A i \in Processed :
        (book[i].readable /\ book[i].rows = << <<EmptyCell>> >>)
            => /\ pf.log[i].outcome = "empty_after_cleaning"
               /\ \A t \in LoadedTables :
                      t.sheet # clean_table_name(book[i].name)
                        \/ \E j \in Processed \ {i} :
                              /\ pf.log[j].outcome = "loaded"
                              /\ pf.log[j].table = t
               /\ (pf.kind = "returned" /\ Len(book) = 1) => ~pf.result.ok

C13_Witness ==
    /\ pf # NoInfo
    /\ pf.kind = "returned"
    /\ Len(book) = 2
    /\ book[1].readable /\ book[1].rows = << <<EmptyCell>> >>
    /\ pf.log[1].outcome = "empty_after_cleaning"
    /\ pf.log[2].outcome = "loaded"
    /\ pf.result.ok /\ pf.result.value = 1

\* Row r of df is found among the rows of cleaned, on the columns cleaned
\* kept.
RowSurvives(df, r, cleaned) ==
    /\ cleaned.kind = "frame"
    /\ \E k \in 1..Height(cleaned) :
          \A c \in DOMAIN cleaned.cols :
             \E d \in DOMAIN df.cols :
                /\ df.cols[d].name = cleaned.cols[c].name
                /\ df.cols[d].vals[r] = cleaned.cols[c].vals[k]

\* C14: of the frame built from a processed sheet, every row that has a cell
\* that is not null is still in the cleaned frame.
C14_RowsWithValuesSurviveCleaning ==
    \A i \in Processed :
        (book[i].readable /\ book[i].rows # <<>>
            /\ BuiltFrame(book[i], pf.fn).kind = "frame")
        => LET df == BuiltFrame(book[i], pf.fn) IN
           \A r \in 1..Height(df) :
              (\E c \in DOMAIN df.cols : ~df.cols[c].vals[r].null)
                 => RowSurvives(df, r, clean_dataframe(df))

\* The part of the rule that the code keeps: cleaning gives no frame exactly
\* when no row without a null, or no column, is left.
CleanNoneIffNothingLeft ==
    \A i \in Processed :
        (book[i].readable /\ book[i].rows # <<>>
            /\ BuiltFrame(book[i], pf.fn).kind = "frame")
        => LET df == BuiltFrame(book[i], pf.fn) IN
           (clean_dataframe(df).kind = "none")
              <=> \/ Width(df) = 0
                  \/ \A r \in 1..Height(df) :
                        \E c \in DOMAIN df.cols : df.cols[c].vals[r].null

\* The sheets of the log with a given outcome.
WithOutcome(outcome) == {i \in Processed : pf.log[i].outcome = outcome}

\* C15: the loop goes through every sheet whatever happened to the sheets
\* before; the call returns the error exactly when no load succeeded, and
\* otherwise the number of sheets whose load succeeded.
C15_ErrorIffNoSheetLoaded ==
    (pf # NoInfo /\ pf.kind = "returned")
        => /\ Len(pf.log) = Len(book)
           /\ \A i \in DOMAIN book :
                 pf.log[i].outcome = "loaded"
                    => SheetStage(book[i], pf.fn) = "load"
           /\ ~pf.result.ok <=> WithOutcome("loaded") = {}
           /\ pf.result.ok
                 => pf.result.value = Cardinality(WithOutcome("loaded"))

C15_Witness ==
    /\ pf # NoInfo
    /\ pf.kind = "returned"
    /\ Len(book) = 2
    /\ pf.log[1].outcome = "load_failed"
    /\ pf.log[2].outcome = "loaded"
    /\ pf.result.ok /\ pf.result.value = 1

\* The sheets of the log that reached the load.
ReachedLoad ==
    {i \in Processed : pf.log[i].outcome \in {"loaded", "load_failed"}}

\* The frame of sheet i as cleaned, and as the date pass left it.
CleanedFrame(i) == clean_dataframe(BuiltFrame(book[i], pf.fn))
PassedFrame(i) == DatePass(CleanedFrame(i), pf.fn)

\* A string that one of the date formats of the code matches.
DatePattern(s) == is_date_string(s) \/ fp_is_date_string(s)

\* At least 80% of the first 100 values of a string column are strings that
\* pattern matches (which: "any", "utils" or "fp").
EightyPercentDates(col, which) ==
    /\ col.dtype = "str"
    /\ LET sample == Take(col.vals, TYPE_DETECTION_ROWS)
           dates == {k \in DOMAIN sample :
                       /\ ~sample[k].null
                       /\ CASE which = "utils" -> is_date_string(sample[k].v)
                            [] which = "fp" -> fp_is_date_string(sample[k].v)
                            [] OTHER -> DatePattern(sample[k].v)}
       IN  /\ sample # <<>>
           /\ AtLeastThreshold(Cardinality(dates), Len(sample))

\* C21: the date pass makes a column of a cleaned frame a timestamp column
\* exactly when at least 80% of its first 100 values are strings that match a
\* date pattern.
C21_DatePassAtEightyPercent ==
    \A i \in ReachedLoad :
        \A c \in DOMAIN CleanedFrame(i).cols :
            (PassedFrame(i).cols[c].dtype = "datetime")
                <=> EightyPercentDates(CleanedFrame(i).cols[c], "any")

\* file_processor.rs keeps the rule for the patterns of its own
\* is_date_string.
FpDatePassFollowsRule ==
    \A i \in ReachedLoad :
        pf.fn = "file_processor"
            => \A c \in DOMAIN CleanedFrame(i).cols :
                  (PassedFrame(i).cols[c].dtype = "datetime")
                      <=> EightyPercentDates(CleanedFrame(i).cols[c], "fp")

\* processor.rs decides by the first value of the column alone.
ProcessorDatePassByFirstValue ==
    \A i \in ReachedLoad :
        pf.fn = "excel_processor"
            => \A c \in DOMAIN CleanedFrame(i).cols :
                  (PassedFrame(i).cols[c].dtype = "datetime")
                      <=> (/\ CleanedFrame(i).cols[c].dtype = "str"
                           /\ is_date_string(CleanedFrame(i).cols[c].vals[1].v))

\* The three ways create_dataframe builds a column: f64, i64 seconds, or
\* strings for every other type.
BuilderCategory(data_type) ==
    IF data_type \in {"numeric", "date"} THEN data_type ELSE "text"

\* C22: the type create_dataframe of processor.rs coerces a column by is
\* the category of the classification of the column under the 80% rule,
\* numeric before date.
C22_BuilderAgreesWithInferencer ==
    (tType.kind = "type" /\ tType.fn = "utils")
        => BuilderCategory(tType.data_type)
             = BuilderCategory(RuleType(aValues, "analyzer"))

\* The same against the analyzer's own detect_column_type.
BuilderAgreesWithAnalyzerCode ==
    (tType.kind = "type" /\ tType.fn = "utils")
        => BuilderCategory(tType.data_type)
             = BuilderCategory(analyzer_detect_column_type(aValues))

(***************************************************************************)
(* Further properties of the loader.                                       *)
(***************************************************************************)
\* The loads of table t that have returned, in the order they held the
\* connection.
LoadsOf(t) == {i \in Returned : loadLog[i].table = t}

\* The largest member of a non-empty set of numbers.
Last(S) == CHOOSE i \in S : \A j \in S : j <= i

\* No load is at work on table t.
Quiet(t) == \A p \in Loaders : ltable[p] # t

\* The rows of a table all come from the load that created it.
RowsOfOneLoad(t) ==
    \A k \in 1..Len(store[t].rows) : store[t].rows[k].load = store[t].by

\* C23: a table never holds rows of two loads, and once the loads of one
\* table name have all returned Ok the table is the whole frame of the load
\* that took the connection mutex last.
C23_LastAcquirerWins ==
    \A t \in TableNames :
        /\ RowsOfOneLoad(t)
        /\ (/\ Quiet(t)
            /\ LoadsOf(t) # {}
            /\ \A i \in LoadsOf(t) : loadLog[i].outcome = "ok")
               => store[t] = FullTable(Last(LoadsOf(t)))

C23_Witness ==
    \E t \in TableNames :
        /\ Quiet(t)
        /\ LoadsOf(t) = {1, 2}
        /\ loadLog[1].outcome = "ok" /\ loadLog[1].frame.height = 1
        /\ loadLog[2].outcome = "ok" /\ loadLog[2].frame.height = MaxRows
        /\ store[t].by = 2
        /\ Len(store[t].rows) = MaxRows

(***************************************************************************)
(* Further properties of the header normalizers.                           *)
(***************************************************************************)
\* The name before any suffix of header i, and the names returned before it.
BaseOf(i) == ColPrefixed(nIn[i])
ReturnedBefore(i) == {nOut[j] : j \in 1..(i - 1)}

Suffixed(base, k) == base \o <<"_">> \o Decimal(k)

\* name is base with the smallest counter from 1 whose name is not in used.
FirstFreeSuffix(name, base, used) ==
    \E k \in 1..(MaxHeaders + 1) :
        /\ name = Suffixed(base, k)
        /\ name \notin used
        /\ \A m \in 1..(k - 1) : Suffixed(base, m) \in used

\* C24 as stated: the first header with a given normalized name keeps that
\* name, and a later header with the same normalized name gets it with the
\* first of _1, _2, ... that is not in use.
C24_FirstOccurrenceKeepsName ==
    \A i \in 1..Len(nOut) :
        IF \A j \in 1..(i - 1) : BaseOf(j) # BaseOf(i)
        THEN nOut[i] = BaseOf(i)
        ELSE FirstFreeSuffix(nOut[i], BaseOf(i), ReturnedBefore(i))

\* C24 as amended: a header keeps its normalized name when no name returned
\* before it in the call is that name, and otherwise gets it with the first
\* of _1, _2, ... that is not a name returned before.
C24_SuffixUntilUnused ==
    \A i \in 1..Len(nOut) :
        IF BaseOf(i) \notin ReturnedBefore(i)
        THEN nOut[i] = BaseOf(i)
        ELSE FirstFreeSuffix(nOut[i], BaseOf(i), ReturnedBefore(i))

C24_Witness ==
    /\ nIn = << <<"a">>, <<"a", "_", "1">>, <<"a">> >>
    /\ nOut = << <<"a">>, <<"a", "_", "1">>, <<"a", "_", "2">> >>

(***************************************************************************)
(* Further properties of the column statistics.                            *)
(***************************************************************************)
\* a <= b in string order
StrLeq(a, b) == ~StrLess(b, a)

MinMaxIdentity == <<NoneStr, NoneStr>>

\* The (min, max) pairs of the partial results at hand, and the identity.
PairsAtHand ==
    {aParts[i].acc.min_max : i \in {j \in DOMAIN aParts : aParts[j].st = "acc"}}
        \cup {MinMaxIdentity}

\* m is the smaller (which = 1) or the larger (which = 2) of the bounds x and
\* y that are there, and None when neither is.
ExtremeOf(m, x, y, which) ==
    LET there == {z \in {x, y} : z.some} IN
    IF there = {} THEN ~m.some
    ELSE /\ m \in there
         /\ \A z \in there :
               IF which = 1 THEN StrLeq(m.v, z.v) ELSE StrLeq(z.v, m.v)

\* The renderings of the values of the column that are not null.
Renderings ==
    {to_string(aValues[i]) :
        i \in {j \in DOMAIN aValues : ~IsEmptyCell(aValues[j])}}

\* C25: on the (min, max) pairs the reduce meets, merge_min_max is
\* commutative and associative with (None, None) as identity and gives the
\* smaller min and the larger max; the min_value and max_value of the
\* ColumnInfo bound every rendering of a value that is not null, and are
\* None exactly when there is no such value.
C25_MergeMinMaxLaws ==
    /\ \A a, b \in PairsAtHand :
          /\ merge_min_max(a, b) = merge_min_max(b, a)
          /\ merge_min_max(a, MinMaxIdentity) = a
          /\ merge_min_max(MinMaxIdentity, a) = a
          /\ ExtremeOf(merge_min_max(a, b)[1], a[1], b[1], 1)
          /\ ExtremeOf(merge_min_max(a, b)[2], a[2], b[2], 2)
          /\ \A c \in PairsAtHand :
                merge_min_max(a, merge_min_max(b, c))
                    = merge_min_max(merge_min_max(a, b), c)
    /\ aInfo.kind = "info" =>
          /\ aInfo.min_value.some <=> Renderings # {}
          /\ aInfo.max_value.some <=> Renderings # {}
          /\ \A r \in Renderings :
                /\ StrLeq(aInfo.min_value.v, r)
                /\ StrLeq(r, aInfo.max_value.v)

\* Three partial results with three different pairs, the smallest min in
\* the middle one.
C25_Witness ==
    /\ Len(aParts) = 3
    /\ \A i \in 1..3 : aParts[i].st = "acc" /\ aParts[i].acc.min_max[1].some
    /\ StrLess(aParts[2].acc.min_max[1].v, aParts[1].acc.min_max[1].v)
    /\ StrLess(aParts[1].acc.min_max[1].v, aParts[3].acc.min_max[1].v)

\* The DataTypes of the frames that reach load_dataframe, by family.
IntegerDtypes == {"Int32", "Int64"}
FloatDtypes == {"Float32", "Float64"}

\* The frame of the load that created table t, returned or still at work.
CreatorFrame(t) ==
    IF store[t].by \in Returned THEN loadLog[store[t].by].frame
    ELSE lframe[CHOOSE p \in Loaders : lid[p] = store[t].by]

\* C26: a table that a load created has one column per column of the load's
\* frame, in the frame's order and under the frame's names, INTEGER for an
\* integer column, REAL for a float column and TEXT for any other.
C26_DdlTypesFollowFrame ==
    \A t \in StoreTables :
        LET f == CreatorFrame(t) IN
        /\ Len(store[t].cols) = Len(f.cols)
        /\ \A c \in 1..Len(f.cols) :
              /\ store[t].cols[c].name = f.cols[c].name
              /\ store[t].cols[c].type =
                    IF f.cols[c].dtype \in IntegerDtypes THEN "INTEGER"
                    ELSE IF f.cols[c].dtype \in FloatDtypes THEN "REAL"
                    ELSE "TEXT"

\* get_schema_with_samples has shown a table of an integer, a text, a
\* float, a timestamp and a boolean column.
C26_Witness ==
    \E r \in Readers, t \in StoreTables :
        /\ rret[r].kind = "Schema"
        /\ t \in DOMAIN rret[r].tables
        /\ [c \in 1..Len(rret[r].tables[t].cols) |->
               rret[r].tables[t].cols[c].type]
              = <<"INTEGER", "TEXT", "REAL", "TEXT", "TEXT">>

\* The loads of table t that returned Ok.
OkLoadsOf(t) == {i \in LoadsOf(t) : loadLog[i].outcome = "ok"}

\* No load is running.
AllReturned == \A p \in Loaders : pc[p] = "idle"

\* C27: when no load is running and current_table is Some(t), the store
\* holds a table t whose columns are column_names and whose rows are those
\* of the last load of t that returned Ok.
C27_MetadataProjectsLastLoad ==
    (AllReturned /\ current_table # None)
        => LET t == current_table IN
           /\ store[t].exists
           /\ [c \in 1..Len(store[t].cols) |-> store[t].cols[c].name]
                 = column_names
           /\ OkLoadsOf(t) # {}
           /\ store[t].rows = FullTable(Last(OkLoadsOf(t))).rows

\* What the metadata does project: the table name and the column names of
\* the load that returned Ok last, whatever the store holds since.
MetadataOfLastOkLoad ==
    LET oks == {i \in Returned : loadLog[i].outcome = "ok"} IN
    AllReturned =>
        IF oks = {} THEN current_table = None /\ column_names = <<>>
        ELSE /\ current_table = loadLog[Last(oks)].table
             /\ column_names = FrameColumnNames(loadLog[Last(oks)].frame)

\* C28: has_data() is false as long as no load has returned Ok, and a call
\* answers true only after one has; once the two fields make has_data() true
\* no step makes it false again, and a call that answers false read
\* current_table before any load had set it.
C28_HasDataMonotonic ==
    /\ [](~SomeLoadOk => ~HasDataNow)
    /\ [](\A r \in Readers :
            rret[r].kind = "Bool" =>
               /\ rret[r].val => SomeLoadOk
               /\ ~rret[r].val => hdVerT[r] = 0)
    /\ [][HasDataNow => HasDataNow']_vars

\* has_data() has answered true, and of the two loads the first returned Ok
\* and the second failed after its DROP.
C28_Witness ==
    /\ Len(loadLog) = 2
    /\ loadLog[1].outcome = "ok"
    /\ loadLog[2].outcome = "err" /\ loadLog[2].step \in {"create", "insert"}
    /\ loadLog[2].table = loadLog[1].table
    /\ HasDataNow
    /\ \E r \in Readers :
          /\ rret[r] = [kind |-> "Bool", val |-> TRUE]
          /\ hdVerT[r] = 1

\* C29: when the call has returned Ok(n) the store holds n tables, and every
\* sheet whose load succeeded has its table there with its own frame.
C29_OneTablePerLoadedSheet ==
    (pf # NoInfo /\ pf.kind = "returned" /\ pf.result.ok)
        => /\ Len(pstore) = pf.result.value
           /\ \A i \in WithOutcome("loaded") :
                 \E k \in DOMAIN pstore :
                    pstore[k] = [table |-> pf.log[i].table,
                                 df |-> PassedFrame(i)]

\* What the loop does keep: a table of the store is the frame of the last
\* sheet loaded under its name, and a sheet whose load succeeded has its table
\* there as long as no later sheet reached the load under the same name.
StoreHoldsLastLoadPerName ==
    /\ \A k \in DOMAIN pstore :
          \E i \in WithOutcome("loaded") :
             /\ pstore[k] = [table |-> pf.log[i].table, df |-> PassedFrame(i)]
             /\ \A j \in WithOutcome("loaded") :
                   pf.log[j].table = pf.log[i].table => j <= i
    /\ \A i \in WithOutcome("loaded") :
          (\A j \in ReachedLoad : j > i => pf.log[j].table # pf.log[i].table)
             => pf.log[i].table \in LoadedTables

\* The headers of the finished report and the type the map's closure infers
\* for each column, in column order.
ReportHeaders == [c \in DOMAIN sa.column_info |-> sa.column_info[c].name]
ReportTypes ==
    [c \in DOMAIN sa.column_info |->
        analyzer_detect_column_type(ColumnValues(sa.rows, c))]

\* The names of one category list in header order.
InHeaderOrder(which) == FpListOf(which, ReportHeaders, ReportTypes)

\* C30: whatever the order in which the column tasks ran, the report of
\* analyze_from_bytes lists column_info in header order and each of
\* date_columns, numeric_columns and text_columns in header order, so that the
\* report is a function of the input alone.
C30_ReportIndependentOfSchedule ==
    ByAnalyzer =>
       /\ sa.rows # <<>> => ReportHeaders = CleanHeaders(sa.rows[1], <<>>, {})
       /\ sa.date_columns = InHeaderOrder("date_columns")
       /\ sa.numeric_columns = InHeaderOrder("numeric_columns")
       /\ sa.text_columns = InHeaderOrder("text_columns")

SameNames(list, other) ==
    /\ Len(list) = Len(other)
    /\ \A k \in DOMAIN other :
          Occurrences(list, other[k]) = Occurrences(other, other[k])

\* What the map does keep: column_info is in header order, and each category
\* list holds the names of its header-order list, in some order.
ReportIndependentUpToListOrder ==
    ByAnalyzer =>
       /\ sa.rows # <<>> => ReportHeaders = CleanHeaders(sa.rows[1], <<>>, {})
       /\ SameNames(sa.date_columns, InHeaderOrder("date_columns"))
       /\ SameNames(sa.numeric_columns, InHeaderOrder("numeric_columns"))
       /\ SameNames(sa.text_columns, InHeaderOrder("text_columns"))

====
